---- MODULE Spec2Model ----
(***************************************************************************)
(* A model of the indicator and signal decision engine of the analyzer    *)
(* repository: the SuperTrend strategy (infrastructure/technical_analysis *)
(* .py with the entities of domain/entities.py) and the order-block       *)
(* strategy (main.py).                                                     *)
(*                                                                         *)
(* Numbers.  Python floats are modelled by exact integers:                 *)
(*   - prices are integer counts of tenths of a price unit, and the input  *)
(*     prices lie on the grid of whole units (multiples of 10), so that    *)
(*     x * 1.5 and x * 0.2 are exact (x * 15 \div 10, x * 2 \div 10);       *)
(*   - confidences and scores are integer hundredths (0.75 is 75).         *)
(***************************************************************************)
EXTENDS Integers, Sequences, FiniteSets, TLC

VARIABLES
  st,     \* one TechnicalAnalysisService.analyze_market call
  hy,     \* one MultiCoinHybridAnalyzer.generate_trading_signal_hybrid call
  ent,    \* one construction of an entity of domain/entities.py
  pipe,   \* MultiCoinHybridAnalyzer.analyze_single_coin on one symbol
  uc,     \* one run of TradingUseCase.analyze_and_notify
  run,    \* one run of MultiCoinHybridAnalyzer.run_multi_coin_analysis
  an,     \* one of the candle analyses of main.py applied to one frame
  tn      \* one TelegramNotifier and the threads calling its send_message

vars == <<st, hy, ent, pipe, uc, run, an, tn>>

\* what each operation leaves alone
notST == <<hy, ent, pipe, uc, run, an, tn>>

notHY == <<st, ent, pipe, uc, run, an, tn>>

notENT == <<st, hy, pipe, uc, run, an, tn>>

notPIPE == <<st, hy, ent, uc, run, an, tn>>

notUC == <<st, hy, ent, pipe, run, an, tn>>

notRUN == <<st, hy, ent, pipe, uc, an, tn>>

notAN == <<st, hy, ent, pipe, uc, run, tn>>

notTN == <<st, hy, ent, pipe, uc, run, an>>

\* a component that is not running
Idle == [pc |-> "idle"]

(***************************************************************************)
(* Bounds of the model.                                                    *)
(***************************************************************************)
MaxLevel == 7

\* the price grid: whole units, written in tenths
Levels == {10 * k : k \in 1..MaxLevel}

(***************************************************************************)
(* Python values.                                                          *)
(***************************************************************************)
None == -1

\* numpy's nan: every comparison with it is false
NaN == -1000000

IsNaN(x) == x = NaN

Lt(a, b) == ~IsNaN(a) /\ ~IsNaN(b) /\ a < b

Gt(a, b) == ~IsNaN(a) /\ ~IsNaN(b) /\ a > b

Le(a, b) == ~IsNaN(a) /\ ~IsNaN(b) /\ a <= b

Ge(a, b) == ~IsNaN(a) /\ ~IsNaN(b) /\ a >= b

\* a dict and dict.get(key, default)
EmptyDict == [k \in {} |-> 0]

Get(d, key, default) == IF key \in DOMAIN d THEN d[key] ELSE default

\* bool(x) of an Optional[float]: None and 0.0 are falsy
Truthy(x) == x # None /\ x # 0

Abs(x) == IF x < 0 THEN -x ELSE x

SetMin(S) == CHOOSE x \in S : \A y \in S : x <= y

SetMax(S) == CHOOSE x \in S : \A y \in S : x >= y

Min2(a, b) == IF a <= b THEN a ELSE b

Max2(a, b) == IF a >= b THEN a ELSE b

(***************************************************************************)
(* domain/entities.py                                                      *)
(***************************************************************************)
BULLISH == 1

BEARISH == -1

NEUTRAL == 0

\* the fields of the TradingSignal dataclass, in declaration order
TradingSignalFields ==
  {"symbol", "signal_type", "timestamp", "price", "supertrend_value",
   "trend_direction", "confidence", "stop_loss", "take_profit", "timeframe",
   "indicator_values"}

\* the fields without a default: the generated __init__ requires them
TradingSignalRequired ==
  {"symbol", "signal_type", "timestamp", "price", "supertrend_value",
   "trend_direction"}

TradingSignalDefaults ==
  [confidence |-> 0, stop_loss |-> None, take_profit |-> None,
   timeframe |-> "1h", indicator_values |-> None]

\* TradingSignal.__post_init__: "" when the signal is accepted, else the
\* exception it raises
TradingSignalPostInit(s) ==
  IF s.confidence < 0 \/ s.confidence > 100 THEN "ValueError"
  ELSE IF s.price <= 0 THEN "ValueError"
  ELSE IF s.signal_type = "BUY"
  THEN IF Truthy(s.stop_loss) /\ s.stop_loss >= s.price THEN "ValueError"
       ELSE IF Truthy(s.take_profit) /\ s.take_profit <= s.price THEN "ValueError"
       ELSE ""
  ELSE IF s.signal_type = "SELL"
  THEN IF Truthy(s.stop_loss) /\ s.stop_loss <= s.price THEN "ValueError"
       ELSE IF Truthy(s.take_profit) /\ s.take_profit >= s.price THEN "ValueError"
       ELSE ""
  ELSE ""

\* what a call that did not return a TradingSignal leaves behind
NoSignal == [signal_type |-> "None"]

\* TradingSignal(**kwargs): the dataclass __init__ binds the keywords (an
\* unknown or a missing one is a TypeError), fills the defaults and runs
\* __post_init__
NewTradingSignal(kwargs) ==
  IF ~(DOMAIN kwargs \subseteq TradingSignalFields)
       \/ ~(TradingSignalRequired \subseteq DOMAIN kwargs)
  THEN [exc |-> "TypeError", value |-> NoSignal]
  ELSE LET s == [f \in TradingSignalFields |->
                   IF f \in DOMAIN kwargs THEN kwargs[f]
                   ELSE TradingSignalDefaults[f]]
       IN IF TradingSignalPostInit(s) # ""
          THEN [exc |-> TradingSignalPostInit(s), value |-> NoSignal]
          ELSE [exc |-> "", value |-> s]

\* the fields of the AnalysisResult dataclass
AnalysisResultFields ==
  {"symbol", "timeframe", "timestamp", "market_data", "indicator_data",
   "signal", "analysis_duration_ms"}

\* AnalysisResult.has_signal
HasSignal(result) ==
  result.signal # NoSignal /\ result.signal.signal_type \in {"BUY", "SELL"}

(***************************************************************************)
(* infrastructure/technical_analysis.py: TechnicalAnalysisService          *)
(***************************************************************************)
\* the values a supertrend_direction cell is read as
DirectionVals == {-1, 0, 1}

\* calculate_dynamic_sr: the nearest pivot high above and the nearest pivot
\* low below the current price
CalculateDynamicSR(recent_highs, recent_lows, current_price) ==
  LET above == {p \in recent_highs : p > current_price}
      below == {p \in recent_lows : p < current_price}
  IN [support |-> IF below = {} THEN None ELSE SetMax(below),
      resistance |-> IF above = {} THEN None ELSE SetMin(above)]

\* a faulty variant of the crossover: the higher timeframe is not consulted
SignalTypeOfUnconfirmed(current_trend_val, prev_trend_val, higher_timeframe_trend) ==
  IF current_trend_val = 1 /\ prev_trend_val = -1
  THEN [signal_type |-> "BUY", log |-> "CONFIRMED BUY"]
  ELSE IF current_trend_val = -1 /\ prev_trend_val = 1
  THEN [signal_type |-> "SELL", log |-> "CONFIRMED SELL"]
  ELSE [signal_type |-> "None", log |-> ""]

\* generate_signal, lines 102-125: the crossover with its confirmation by
\* the higher timeframe; the log line it writes
SignalTypeOf(current_trend_val, prev_trend_val, higher_timeframe_trend) ==
  IF current_trend_val = 1 /\ prev_trend_val = -1
  THEN IF higher_timeframe_trend = BULLISH
       THEN [signal_type |-> "BUY", log |-> "CONFIRMED BUY"]
       ELSE [signal_type |-> "None", log |-> "IGNORING BUY"]
  ELSE IF current_trend_val = -1 /\ prev_trend_val = 1
  THEN IF higher_timeframe_trend = BEARISH
       THEN [signal_type |-> "SELL", log |-> "CONFIRMED SELL"]
       ELSE [signal_type |-> "None", log |-> "IGNORING SELL"]
  ELSE [signal_type |-> "None", log |-> ""]

\* a faulty variant of the take profit: the opposing level caps the target
\* wherever it lies beyond the entry
TakeProfitOfAnyLevel(signal_type, current_price, stop_loss, sr_levels) ==
  LET risk == Abs(current_price - stop_loss)
      rr == (risk * 15) \div 10
  IN IF signal_type = "BUY"
     THEN IF Truthy(sr_levels.resistance)
          THEN Min2(current_price + rr, sr_levels.resistance)
          ELSE current_price + rr
     ELSE IF Truthy(sr_levels.support)
          THEN Max2(current_price - rr, sr_levels.support)
          ELSE current_price - rr

\* generate_signal, lines 127-153: the take profit of a BUY or SELL
TakeProfitOf(signal_type, current_price, stop_loss, sr_levels) ==
  LET risk == Abs(current_price - stop_loss)
      rr == (risk * 15) \div 10
      part == (risk * 2) \div 10
      take_profit ==
        IF signal_type = "BUY"
        THEN IF Truthy(sr_levels.resistance)
                  /\ sr_levels.resistance > current_price + part
             THEN Min2(current_price + rr, sr_levels.resistance)
             ELSE current_price + rr
        ELSE IF Truthy(sr_levels.support)
                  /\ sr_levels.support < current_price - part
             THEN Max2(current_price - rr, sr_levels.support)
             ELSE current_price - rr
  IN IF take_profit = current_price
     THEN IF signal_type = "BUY" THEN current_price + rr
          ELSE current_price - rr
     ELSE take_profit

\* generate_signal: its locals and what the call ends in: it returns None
\* (exc = "", value = NoSignal), returns the TradingSignal it built, or the
\* TradingSignal(...) call raises
GenerateSignal(symbol, current_data, previous_data, sr_levels, higher_timeframe_trend) ==
  LET current_price == current_data.close
      primary_trend ==
        IF current_data.supertrend_direction = 1 THEN BULLISH ELSE BEARISH
      d == SignalTypeOf(current_data.supertrend_direction,
                        previous_data.supertrend_direction,
                        higher_timeframe_trend)
      stop_loss == current_data.supertrend
      take_profit == TakeProfitOf(d.signal_type, current_price, stop_loss,
                                  sr_levels)
  IN IF d.signal_type = "None"
     THEN [signal_type |-> "None", log |-> d.log, stop_loss |-> None,
           take_profit |-> None, exc |-> "", value |-> NoSignal]
     ELSE LET made == NewTradingSignal(
                 [symbol |-> symbol, signal_type |-> d.signal_type,
                  timestamp |-> current_data.name,
                  price |-> current_price,
                  supertrend_value |-> current_data.supertrend,
                  trend_direction |-> primary_trend,
                  entry_price |-> current_price, stop_loss |-> stop_loss,
                  take_profit |-> take_profit,
                  support_level |-> sr_levels.support,
                  resistance_level |-> sr_levels.resistance,
                  timeframe |-> "1h/4h"])
          IN [signal_type |-> d.signal_type, log |-> d.log,
              stop_loss |-> stop_loss, take_profit |-> take_profit,
              exc |-> made.exc, value |-> made.value]

\* the pivot columns of the last 50 rows: at most two distinct values each
PivotSets == {S \in SUBSET Levels : Cardinality(S) <= 2}

InitST ==
  st = [pc |-> "start"] /\ hy = Idle /\ ent = Idle /\ pipe = Idle /\ uc = Idle
  /\ run = Idle /\ an = Idle /\ tn = Idle

\* analyze_market, lines 176-180: the trend of the higher timeframe
AnalyzeMarketHigher ==
  /\ st.pc = "start"
  /\ UNCHANGED notST
  /\ \E higher_trend_val \in DirectionVals :
       st' = [pc |-> "higher",
              higher_trend_val |-> higher_trend_val,
              higher_timeframe_trend |->
                IF higher_trend_val = 1 THEN BULLISH ELSE BEARISH]

\* analyze_market, lines 183-190: the primary timeframe, its levels and its
\* last two rows
AnalyzeMarketPrimary ==
  /\ st.pc = "higher"
  /\ UNCHANGED notST
  /\ \E close \in Levels, supertrend \in Levels \cup {0},
        cur \in DirectionVals, prev \in DirectionVals,
        recent_highs \in PivotSets, recent_lows \in PivotSets :
       st' = [pc |-> "primary",
              higher_trend_val |-> st.higher_trend_val,
              higher_timeframe_trend |-> st.higher_timeframe_trend,
              latest_data |-> [name |-> 2, close |-> close,
                               supertrend |-> supertrend,
                               supertrend_direction |-> cur],
              previous_data |-> [name |-> 1, supertrend_direction |-> prev],
              sr_levels |-> CalculateDynamicSR(recent_highs, recent_lows,
                                               close)]

\* analyze_market, lines 193-219: generate_signal and the AnalysisResult;
\* an exception of generate_signal is caught and gives the result without
\* signal and indicator data
AnalyzeMarketSignal ==
  /\ st.pc = "primary"
  /\ UNCHANGED notST
  /\ LET g == GenerateSignal("SYM", st.latest_data, st.previous_data,
                             st.sr_levels, st.higher_timeframe_trend)
     IN st' = [pc |-> "done",
               higher_trend_val |-> st.higher_trend_val,
               higher_timeframe_trend |-> st.higher_timeframe_trend,
               latest_data |-> st.latest_data,
               previous_data |-> st.previous_data,
               sr_levels |-> st.sr_levels,
               gen |-> g,
               result |->
                 [symbol |-> "SYM", timeframe |-> "1h/4h",
                  timestamp |-> 0, market_data |-> st.latest_data.close,
                  indicator_data |->
                    IF g.exc # "" THEN NoSignal
                    ELSE [supertrend |-> st.latest_data.supertrend,
                          trend_direction |->
                            IF st.latest_data.supertrend_direction = 1
                            THEN BULLISH ELSE BEARISH,
                          support_level |-> st.sr_levels.support,
                          resistance_level |-> st.sr_levels.resistance],
                  signal |-> IF g.exc # "" THEN NoSignal ELSE g.value,
                  analysis_duration_ms |-> 0]]

NextST == AnalyzeMarketHigher \/ AnalyzeMarketPrimary \/ AnalyzeMarketSignal

SpecST == InitST /\ [][NextST]_vars

(***************************************************************************)
(* main.py: MultiCoinHybridAnalyzer, the indicators                        *)
(***************************************************************************)
\* _get_hybrid_trend_alignment
GetHybridTrendAlignment(latest) ==
  IF IsNaN(latest.SMA_20) \/ IsNaN(latest.SMA_50) \/ IsNaN(latest.SMA_100)
       \/ IsNaN(latest.SMA_200)
  THEN "neutral"
  ELSE LET B(c) == IF c THEN 1 ELSE 0
           alignment_score ==
             B(latest.close > latest.SMA_20) + B(latest.close > latest.SMA_50)
             + B(latest.close > latest.SMA_100)
             + B(latest.close > latest.SMA_200)
             + B(latest.SMA_20 > latest.SMA_50)
             + B(latest.SMA_50 > latest.SMA_100)
             + B(latest.SMA_100 > latest.SMA_200)
       IN IF alignment_score >= 6 THEN "strong_bullish"
          ELSE IF alignment_score >= 4 THEN "bullish"
          ELSE IF alignment_score <= 1 THEN "strong_bearish"
          ELSE IF alignment_score <= 3 THEN "bearish"
          ELSE "neutral"

\* _get_ema_entry_readiness
GetEmaEntryReadiness(latest) ==
  IF IsNaN(latest.EMA_9) \/ IsNaN(latest.EMA_12) \/ IsNaN(latest.EMA_21)
  THEN "not_ready"
  ELSE LET B(c) == IF c THEN 1 ELSE 0
           entry_score ==
             B(latest.close > latest.EMA_9) + B(latest.close > latest.EMA_12)
             + B(latest.close > latest.EMA_21)
             + B(latest.EMA_9 > latest.EMA_12)
             + B(latest.EMA_12 > latest.EMA_21)
       IN IF entry_score >= 5 THEN "buy_ready"
          ELSE IF entry_score = 0 THEN "sell_ready"
          ELSE IF entry_score <= 2 THEN "bearish_setup"
          ELSE "bullish_setup"

\* _get_sma_structure_strength: the "slope" (sma - sma * 0.999) / (sma * 0.999)
\* is 1/999 for every sma > 0 and nan for sma = 0; it is compared with 0.001
GetSmaStructureStrength(latest) ==
  IF IsNaN(latest.SMA_20) \/ IsNaN(latest.SMA_50) \/ IsNaN(latest.SMA_100)
  THEN "weak"
  ELSE LET B(c) == IF c THEN 1 ELSE 0
           SlopeAbove(sma) ==
             sma # 0 /\ (sma * 1000 - sma * 999) * 1000 > sma * 999
           strength_score ==
             B(SlopeAbove(latest.SMA_20)) + B(SlopeAbove(latest.SMA_50))
             + B(IF latest.SMA_50 = 0 THEN latest.SMA_20 # 0
                 ELSE Abs(latest.SMA_20 - latest.SMA_50) * 100
                        > 2 * latest.SMA_50)
       IN IF strength_score >= 3 THEN "very_strong"
          ELSE IF strength_score = 2 THEN "strong"
          ELSE IF strength_score = 1 THEN "moderate"
          ELSE "weak"

\* _calculate_hybrid_confidence, in hundredths; volume_trend is what
\* _get_volume_trend(df) returns
CalculateHybridConfidence(latest, volume_trend) ==
  LET base_confidence == 50
      structure_strength == GetSmaStructureStrength(latest)
      structure_bonus ==
        CASE structure_strength = "very_strong" -> 25
          [] structure_strength = "strong" -> 20
          [] structure_strength = "moderate" -> 10
          [] OTHER -> 0
      entry_readiness == GetEmaEntryReadiness(latest)
      timing_bonus ==
        CASE entry_readiness \in {"buy_ready", "sell_ready"} -> 15
          [] entry_readiness \in {"bullish_setup", "bearish_setup"} -> 8
          [] OTHER -> 0
      trend_alignment == GetHybridTrendAlignment(latest)
      alignment_bonus ==
        CASE trend_alignment \in {"strong_bullish", "strong_bearish"} -> 10
          [] trend_alignment \in {"bullish", "bearish"} -> 5
          [] OTHER -> 0
      volume_bonus ==
        IF ~IsNaN(volume_trend) /\ Abs(volume_trend) > 10 THEN 5 ELSE 0
      total_confidence ==
        base_confidence + structure_bonus + timing_bonus + alignment_bonus
        + volume_bonus
  IN Min2(total_confidence, 100)

\* _get_rsi_signal
GetRsiSignal(rsi) ==
  IF IsNaN(rsi) THEN "neutral"
  ELSE IF rsi < 30 THEN "oversold"
  ELSE IF rsi > 70 THEN "overbought"
  ELSE "neutral"

\* _get_macd_signal
GetMacdSignal(latest) ==
  IF IsNaN(latest.MACD_12_26_9) \/ IsNaN(latest.MACDs_12_26_9) THEN "neutral"
  ELSE IF latest.MACD_12_26_9 > latest.MACDs_12_26_9 THEN "bullish"
  ELSE "bearish"

\* _get_bb_position; BBU, BBM and BBL are the columns BBU_20_2.0, BBM_20_2.0
\* and BBL_20_2.0
GetBbPosition(latest) ==
  IF IsNaN(latest.BBU) \/ IsNaN(latest.BBL) \/ IsNaN(latest.BBM) THEN "N/A"
  ELSE IF latest.close >= latest.BBU THEN "Above Upper"
  ELSE IF latest.close <= latest.BBL THEN "Below Lower"
  ELSE IF latest.close > latest.BBM THEN "Upper Half"
  ELSE "Lower Half"

\* calculate_technical_indicators, lines 418-454: the dict built from the
\* last row of the indicator columns and the volume trend
IndicatorsOf(latest, volume_trend) ==
  [rsi |-> latest.RSI_14,
   rsi_signal |-> GetRsiSignal(latest.RSI_14),
   macd_signal_trend |-> GetMacdSignal(latest),
   bb_position |-> GetBbPosition(latest),
   atr |-> latest.ATR_14,
   volume_trend |-> volume_trend,
   trend_alignment |-> GetHybridTrendAlignment(latest),
   entry_readiness |-> GetEmaEntryReadiness(latest),
   structure_strength |-> GetSmaStructureStrength(latest),
   hybrid_confidence |-> CalculateHybridConfidence(latest, volume_trend)]

(***************************************************************************)
(* main.py: MultiCoinHybridAnalyzer, zone and signal                       *)
(***************************************************************************)
\* get_default_config: strategy_parameters and risk_management (hundredths
\* and tenths)
OrderBlockConfidenceThreshold == 70

MinConfidenceForSignal == 75

StopLossAtrMultiplier == 15

TakeProfitAtrMultiplier == 30

\* the hybrid threshold written into generate_trading_signal_hybrid
HybridThreshold == 65

\* the 24h volume above which the score gets its volume bonus
VolumeFloor == 5000000

\* check_discount_premium, lines 842-891, on the swing high and low of the
\* last min(50, n) candles and the last close
ZoneOf(swing_high, swing_low, current_price, indicators) ==
  LET range_size == swing_high - swing_low
      Below(permille) ==
        current_price * 1000 < swing_low * 1000 + range_size * permille
      Above(permille) ==
        current_price * 1000 > swing_low * 1000 + range_size * permille
      territory ==
        IF Below(236) THEN "deep_discount"
        ELSE IF Below(382) THEN "discount"
        ELSE IF Above(764) THEN "deep_premium"
        ELSE IF Above(618) THEN "premium"
        ELSE "equilibrium"
      trend_alignment == Get(indicators, "trend_alignment", "neutral")
      entry_readiness == Get(indicators, "entry_readiness", "not_ready")
  IN IF range_size = 0
     THEN [territory |-> "equilibrium", current_price |-> current_price,
           percentage_in_range |-> 50]
     ELSE [territory |-> territory,
           technical_bias |->
             IF territory \in {"discount", "deep_discount"}
                  /\ trend_alignment \in {"bullish", "strong_bullish"}
                  /\ entry_readiness \in {"buy_ready", "bullish_setup"}
             THEN "strong_discount_with_confirmation"
             ELSE IF territory \in {"premium", "deep_premium"}
                  /\ trend_alignment \in {"bearish", "strong_bearish"}
                  /\ entry_readiness \in {"sell_ready", "bearish_setup"}
             THEN "strong_premium_with_confirmation"
             ELSE "neutral",
           current_price |-> current_price,
           swing_high |-> swing_high,
           swing_low |-> swing_low,
           percentage_in_range |->
             ((current_price - swing_low) * 100) \div range_size,
           hybrid_confirmation |->
             trend_alignment # "neutral" /\ entry_readiness # "not_ready"]

\* max(obs, key=confidence): the first of the most confident
BestOb(obs) ==
  LET m == SetMax({obs[i].confidence : i \in DOMAIN obs})
      first == SetMin({i \in DOMAIN obs : obs[i].confidence = m})
  IN obs[first]

\* a faulty variant of the gate: the manipulation flag is not asked for
HybridGateUnflagged(order_blocks, discount_premium, manipulation, indicators) ==
  LET hybrid_confidence == Get(indicators, "hybrid_confidence", 50)
      IsOfType(type) ==
        \E i \in DOMAIN order_blocks :
          /\ order_blocks[i].type = type
          /\ order_blocks[i].confidence >= OrderBlockConfidenceThreshold
      Best(type) ==
        order_blocks[CHOOSE i \in DOMAIN order_blocks :
                       /\ order_blocks[i].type = type
                       /\ order_blocks[i].confidence
                            >= OrderBlockConfidenceThreshold]
  IN IF discount_premium.territory \in {"discount", "deep_discount"}
          /\ hybrid_confidence >= HybridThreshold /\ IsOfType("bullish")
     THEN [branch |-> "buy", best_ob |-> Best("bullish")]
     ELSE IF discount_premium.territory \in {"premium", "deep_premium"}
          /\ hybrid_confidence >= HybridThreshold /\ IsOfType("bearish")
     THEN [branch |-> "sell", best_ob |-> Best("bearish")]
     ELSE [branch |-> "none"]

\* a faulty variant of the gate: the territory is not asked for
HybridGateAnyZone(order_blocks, discount_premium, manipulation, indicators) ==
  LET hybrid_confidence == Get(indicators, "hybrid_confidence", 50)
      IsBullish(ob) ==
        ob.type = "bullish" /\ ob.confidence >= OrderBlockConfidenceThreshold
      IsBearish(ob) ==
        ob.type = "bearish" /\ ob.confidence >= OrderBlockConfidenceThreshold
      bullish_obs == SelectSeq(order_blocks, IsBullish)
      bearish_obs == SelectSeq(order_blocks, IsBearish)
  IN IF Len(order_blocks) > 0 /\ manipulation.is_manipulation_phase
          /\ hybrid_confidence >= HybridThreshold
     THEN IF bullish_obs # <<>>
          THEN [branch |-> "buy", best_ob |-> BestOb(bullish_obs)]
          ELSE IF bearish_obs # <<>>
          THEN [branch |-> "sell", best_ob |-> BestOb(bearish_obs)]
          ELSE [branch |-> "none"]
     ELSE [branch |-> "none"]

\* generate_trading_signal_hybrid, lines 1033-1043 and 1089-1099: which
\* branch is taken and with which order block
HybridGate(order_blocks, discount_premium, manipulation, indicators) ==
  LET hybrid_confidence == Get(indicators, "hybrid_confidence", 50)
      confidence_threshold == OrderBlockConfidenceThreshold
      IsBullish(ob) ==
        ob.type = "bullish" /\ ob.confidence >= confidence_threshold
      IsBearish(ob) ==
        ob.type = "bearish" /\ ob.confidence >= confidence_threshold
      bullish_obs == SelectSeq(order_blocks, IsBullish)
      bearish_obs == SelectSeq(order_blocks, IsBearish)
  IN IF discount_premium.territory \in {"discount", "deep_discount"}
          /\ Len(order_blocks) > 0
          /\ manipulation.is_manipulation_phase
          /\ hybrid_confidence >= HybridThreshold
     THEN IF bullish_obs # <<>>
          THEN [branch |-> "buy", best_ob |-> BestOb(bullish_obs)]
          ELSE [branch |-> "none"]
     ELSE IF discount_premium.territory \in {"premium", "deep_premium"}
          /\ Len(order_blocks) > 0
          /\ manipulation.is_manipulation_phase
          /\ hybrid_confidence >= HybridThreshold
     THEN IF bearish_obs # <<>>
          THEN [branch |-> "sell", best_ob |-> BestOb(bearish_obs)]
          ELSE [branch |-> "none"]
     ELSE [branch |-> "none"]

\* generate_trading_signal_hybrid, lines 1046-1068 and 1102-1124: the score
\* of the branch, in hundredths, before it is clamped; comparing a missing
\* (None) 24h volume with the floor raises
HybridScore(branch, discount_premium, indicators, market_data) ==
  LET B(c, bonus) == IF c THEN bonus ELSE 0
      trend_alignment == Get(indicators, "trend_alignment", "neutral")
      entry_readiness == Get(indicators, "entry_readiness", "not_ready")
      structure_strength == Get(indicators, "structure_strength", "weak")
      rsi == Get(indicators, "rsi", 50)
      macd_trend == Get(indicators, "macd_signal_trend", "neutral")
      bb_position == Get(indicators, "bb_position", "N/A")
      volume_24h == Get(market_data, "volume_24h", 0)
      buy ==
        50 + B(trend_alignment \in {"bullish", "strong_bullish"}, 25)
        + B(structure_strength \in {"strong", "very_strong"}, 15)
        + B(entry_readiness \in {"buy_ready", "bullish_setup"}, 15)
        + B(Lt(rsi, 50), 5) + B(Lt(rsi, 35), 5)
        + B(macd_trend = "bullish", 8)
        + B(bb_position \in {"Below Lower", "Lower Half"}, 5)
        + B(volume_24h > VolumeFloor, 5)
        + B(Get(discount_premium, "hybrid_confirmation", FALSE), 8)
      sell ==
        50 + B(trend_alignment \in {"bearish", "strong_bearish"}, 25)
        + B(structure_strength \in {"strong", "very_strong"}, 15)
        + B(entry_readiness \in {"sell_ready", "bearish_setup"}, 15)
        + B(Gt(rsi, 50), 5) + B(Gt(rsi, 65), 5)
        + B(macd_trend = "bearish", 8)
        + B(bb_position \in {"Above Upper", "Upper Half"}, 5)
        + B(volume_24h > VolumeFloor, 5)
        + B(Get(discount_premium, "hybrid_confirmation", FALSE), 8)
  IN IF volume_24h = None THEN [exc |-> "TypeError", hybrid_score |-> 0]
     ELSE [exc |-> "", hybrid_score |-> IF branch = "buy" THEN buy ELSE sell]

\* a faulty variant of the clamp: the raw score is the confidence
FinalConfidenceUnclamped(hybrid_score) == hybrid_score

\* min(hybrid_score, 1.0)
FinalConfidence(hybrid_score) == Min2(hybrid_score, 100)

\* a faulty variant of the emission test: every scored branch emits
EmitsAlways(final_confidence) == TRUE

\* generate_trading_signal_hybrid, lines 1072 and 1128: the clamped score is
\* tested against min_confidence_for_signal
Emits(final_confidence) == final_confidence >= MinConfidenceForSignal

\* a faulty variant of the risk levels: the stop is put on the side of the
\* target
HybridRiskSameSide(branch, best_ob, indicators, manipulation) ==
  LET atr == Get(indicators, "atr", manipulation.atr)
      entry_price == IF branch = "buy" THEN best_ob.low ELSE best_ob.high
      stop_loss ==
        IF branch = "buy"
        THEN best_ob.low + (atr * StopLossAtrMultiplier) \div 10
        ELSE best_ob.high - (atr * StopLossAtrMultiplier) \div 10
      take_profit ==
        IF branch = "buy"
        THEN best_ob.low + (atr * TakeProfitAtrMultiplier) \div 10
        ELSE best_ob.high - (atr * TakeProfitAtrMultiplier) \div 10
  IN [entry_price |-> entry_price, stop_loss |-> stop_loss,
      take_profit |-> take_profit, risk_reward_ratio |-> 0]

\* generate_trading_signal_hybrid, lines 1075-1087 and 1131-1143: entry,
\* stop loss, take profit and their ratio (in hundredths) from the order
\* block and the ATR
HybridRisk(branch, best_ob, indicators, manipulation) ==
  LET atr == Get(indicators, "atr", manipulation.atr)
      sl_mult == StopLossAtrMultiplier
      tp_mult == TakeProfitAtrMultiplier
      entry_price == IF branch = "buy" THEN best_ob.low ELSE best_ob.high
      stop_loss ==
        IF IsNaN(atr) THEN NaN
        ELSE IF branch = "buy" THEN best_ob.low - (atr * sl_mult) \div 10
        ELSE best_ob.high + (atr * sl_mult) \div 10
      take_profit ==
        IF IsNaN(atr) THEN NaN
        ELSE IF branch = "buy" THEN best_ob.low + (atr * tp_mult) \div 10
        ELSE best_ob.high - (atr * tp_mult) \div 10
  IN [entry_price |-> entry_price, stop_loss |-> stop_loss,
      take_profit |-> take_profit,
      risk_reward_ratio |->
        IF IsNaN(atr) THEN NaN
        ELSE IF entry_price # stop_loss
        THEN (Abs(take_profit - entry_price) * 100)
               \div Abs(entry_price - stop_loss)
        ELSE 0]

\* a faulty variant of the initial dict: the entry is preset to the price
HoldSignalPriced(now, current_price, structure, order_blocks, discount_premium, manipulation, indicators) ==
  [timestamp |-> now, action |-> "hold", confidence |-> 0,
   entry_price |-> current_price, stop_loss |-> 0, take_profit |-> 0,
   risk_reward_ratio |-> 0,
   analysis |-> [current_price |-> current_price, structure |-> structure,
                 order_blocks |-> order_blocks,
                 discount_premium |-> discount_premium,
                 manipulation |-> manipulation, indicators |-> indicators]]

\* the signal dict generate_trading_signal_hybrid starts from (lines
\* 999-1017): a hold stamped with the wall-clock time of the call
HoldSignal(now, current_price, structure, order_blocks, discount_premium, manipulation, indicators) ==
  [timestamp |-> now, action |-> "hold", confidence |-> 0, entry_price |-> 0,
   stop_loss |-> 0, take_profit |-> 0, risk_reward_ratio |-> 0,
   analysis |-> [current_price |-> current_price, structure |-> structure,
                 order_blocks |-> order_blocks,
                 discount_premium |-> discount_premium,
                 manipulation |-> manipulation, indicators |-> indicators]]

\* generate_trading_signal_hybrid: the signal dict it returns, or the
\* exception it raises
GenerateTradingSignalHybrid(now, current_price, structure, order_blocks, discount_premium, manipulation, indicators, market_data) ==
  LET signal == HoldSignal(now, current_price, structure, order_blocks,
                           discount_premium, manipulation, indicators)
      gate == HybridGate(order_blocks, discount_premium, manipulation,
                         indicators)
      score == HybridScore(gate.branch, discount_premium, indicators,
                           market_data)
      final_confidence == FinalConfidence(score.hybrid_score)
      risk == HybridRisk(gate.branch, gate.best_ob, indicators, manipulation)
  IN IF gate.branch = "none" THEN [exc |-> "", signal |-> signal]
     ELSE IF score.exc # "" THEN [exc |-> score.exc, signal |-> NoSignal]
     ELSE IF Emits(final_confidence)
     THEN [exc |-> "",
           signal |-> [signal EXCEPT !.action = gate.branch,
                                     !.confidence = final_confidence,
                                     !.entry_price = risk.entry_price,
                                     !.stop_loss = risk.stop_loss,
                                     !.take_profit = risk.take_profit,
                                     !.risk_reward_ratio =
                                       risk.risk_reward_ratio]]
     ELSE [exc |-> "", signal |-> signal]

(***************************************************************************)
(* main.py: MultiCoinHybridAnalyzer, the analyses of the candles.  A       *)
(* DataFrame is the sequence of its rows, oldest first; a mean is kept as  *)
(* the sum and the count it is the quotient of, and compared by cross      *)
(* multiplication.                                                         *)
(***************************************************************************)
\* the whole frame in place of its tail
DfWhole(df, k) == df

\* df.tail(k)
DfTail(df, k) == SubSeq(df, Max2(1, Len(df) - k + 1), Len(df))

RECURSIVE SumOver(_, _)
SumOver(f, S) ==
  IF S = {} THEN 0
  ELSE LET x == CHOOSE y \in S : TRUE IN f[x] + SumOver(f, S \ {x})

\* a column of the frame and its sum, max and min
Column(df, name) == [i \in DOMAIN df |-> df[i][name]]

ColumnSum(df, name) == SumOver(Column(df, name), DOMAIN df)

ColumnMax(df, name) == SetMax({df[i][name] : i \in DOMAIN df})

ColumnMin(df, name) == SetMin({df[i][name] : i \in DOMAIN df})

\* the members of a set of row numbers in rising order, and the last k of
\* such a list
Ascending(S) ==
  [j \in 1..Cardinality(S) |->
     CHOOSE x \in S : Cardinality({y \in S : y < x}) = j - 1]

\* list[:k], the other end of the list
FirstOf(seq, k) == SubSeq(seq, 1, Min2(k, Len(seq)))

\* list[-k:]
LastOf(seq, k) == SubSeq(seq, Max2(1, Len(seq) - k + 1), Len(seq))

\* _get_volume_trend: (mean of the last 5 volumes / mean of the last 20 - 1)
\* in percent, rounded away from zero to a whole percent, which keeps the
\* one comparison made with it (abs(volume_trend) > 10) exact; nan for 0 / 0
GetVolumeTrend(df) ==
  IF Len(df) < 10 THEN 0
  ELSE LET short == DfTail(df, 5)
           long == DfTail(df, 20)
           num == ColumnSum(short, "volume") * Len(long)
           den == ColumnSum(long, "volume") * Len(short)
           hundredfold == 100 * (num - den)
       IN IF den = 0 THEN NaN
          ELSE IF hundredfold >= 0 THEN (hundredfold + den - 1) \div den
          ELSE -((-hundredfold + den - 1) \div den)

\* detect_market_structure: the swing rows (the extreme of the 11 rows
\* around them) and the trend read off the last two swing highs and lows
DetectMarketStructure(df) ==
  IF Len(df) < 20
  THEN [trend |-> "sideways", swing_highs |-> <<>>, swing_lows |-> <<>>]
  ELSE LET n == Len(df)
           Around(i) == SubSeq(df, i - 5, i + 5)
           swing_high_indices ==
             Ascending({i \in 6..(n - 5) :
                          df[i].high = ColumnMax(Around(i), "high")})
           swing_low_indices ==
             Ascending({i \in 6..(n - 5) :
                          df[i].low = ColumnMin(Around(i), "low")})
           recent_highs == LastOf(swing_high_indices, 2)
           recent_lows == LastOf(swing_low_indices, 2)
           trend ==
             IF Len(swing_high_indices) >= 2 /\ Len(swing_low_indices) >= 2
             THEN IF df[recent_highs[2]].high > df[recent_highs[1]].high
                       /\ df[recent_lows[2]].low > df[recent_lows[1]].low
                  THEN "uptrend"
                  ELSE IF df[recent_highs[2]].high < df[recent_highs[1]].high
                       /\ df[recent_lows[2]].low < df[recent_lows[1]].low
                  THEN "downtrend"
                  ELSE "sideways"
             ELSE "sideways"
           Points(indices, name) ==
             [j \in DOMAIN indices |-> <<indices[j], df[indices[j]][name]>>]
       IN [trend |-> trend,
           swing_highs |-> Points(LastOf(swing_high_indices, 5), "high"),
           swing_lows |-> Points(LastOf(swing_low_indices, 5), "low")]

\* a faulty variant of the zone: no guard for an empty range, and the zone
\* edges belong to the outer zones
CheckDiscountPremiumUnguarded(df, indicators) ==
  LET recent_df == DfTail(df, Min2(50, Len(df)))
      swing_high == ColumnMax(recent_df, "high")
      swing_low == ColumnMin(recent_df, "low")
      current_price == df[Len(df)].close
      range_size == swing_high - swing_low
  IN [territory |->
        IF current_price * 1000 <= swing_low * 1000 + range_size * 236
        THEN "deep_discount"
        ELSE IF current_price * 1000 <= swing_low * 1000 + range_size * 382
        THEN "discount"
        ELSE IF current_price * 1000 >= swing_low * 1000 + range_size * 764
        THEN "deep_premium"
        ELSE IF current_price * 1000 >= swing_low * 1000 + range_size * 618
        THEN "premium"
        ELSE "equilibrium",
      current_price |-> current_price, percentage_in_range |-> 50]

\* the zones cut at the middle of the range instead: discount below it,
\* premium above it
CheckDiscountPremiumHalves(df, indicators) ==
  LET recent_df == DfTail(df, Min2(50, Len(df)))
      swing_high == ColumnMax(recent_df, "high")
      swing_low == ColumnMin(recent_df, "low")
      current_price == df[Len(df)].close
  IN [territory |->
        IF current_price * 2 < swing_high + swing_low THEN "discount"
        ELSE IF current_price * 2 > swing_high + swing_low THEN "premium"
        ELSE "equilibrium",
      current_price |-> current_price, swing_high |-> swing_high,
      swing_low |-> swing_low]

\* check_discount_premium: the zone of the last close in the range of the
\* last min(50, n) rows
CheckDiscountPremium(df, indicators) ==
  LET recent_df == DfTail(df, Min2(50, Len(df)))
  IN ZoneOf(ColumnMax(recent_df, "high"), ColumnMin(recent_df, "low"),
            df[Len(df)].close, indicators)

\* the ATR taken as zero, so that any body is large against it
AtrOfZero(indicators, recent_df) == [num |-> 0, den |-> 1]

\* indicators.get('atr', mean of high - low of the window): the ATR as the
\* quotient num / den
AtrOf(indicators, recent_df) ==
  IF "atr" \in DOMAIN indicators THEN [num |-> indicators.atr, den |-> 1]
  ELSE [num |-> ColumnSum(recent_df, "high") - ColumnSum(recent_df, "low"),
        den |-> Len(recent_df)]

\* the ATR as a dict holds it: the mean of a window is cut to the price grid
AtrValue(atr) == IF atr.den = 1 THEN atr.num ELSE atr.num \div atr.den

\* calculate_ob_confidence_hybrid, in hundredths
CalculateObConfidenceHybrid(candle, df, ob_type, indicators) ==
  LET B(c, bonus) == IF c THEN bonus ELSE 0
      volume_sum == ColumnSum(df, "volume")
      body_size == Abs(candle.close - candle.open)
      candle_range == candle.high - candle.low
      trend_alignment == Get(indicators, "trend_alignment", "neutral")
      entry_readiness == Get(indicators, "entry_readiness", "not_ready")
      rsi == Get(indicators, "rsi", 50)
      macd_trend == Get(indicators, "macd_signal_trend", "neutral")
      confidence ==
        50
        + (IF candle.volume * Len(df) * 10 > volume_sum * 25 THEN 25
           ELSE IF candle.volume * Len(df) * 10 > volume_sum * 18 THEN 15
           ELSE 0)
        + (IF candle_range > 0 /\ body_size * 10 > candle_range * 8 THEN 20
           ELSE IF candle_range > 0 /\ body_size * 10 > candle_range * 6
           THEN 10
           ELSE 0)
        + B(\/ ob_type = "bullish"
               /\ trend_alignment \in {"bullish", "strong_bullish"}
            \/ ob_type = "bearish"
               /\ trend_alignment \in {"bearish", "strong_bearish"}, 15)
        + B(\/ ob_type = "bullish"
               /\ entry_readiness \in {"buy_ready", "bullish_setup"}
            \/ ob_type = "bearish"
               /\ entry_readiness \in {"sell_ready", "bearish_setup"}, 10)
        + B(\/ ob_type = "bullish" /\ Lt(rsi, 45)
            \/ ob_type = "bearish" /\ Gt(rsi, 55), 8)
        + B(\/ ob_type = "bullish" /\ macd_trend = "bullish"
            \/ ob_type = "bearish" /\ macd_trend = "bearish", 7)
  IN Min2(confidence, 100)

\* the list left in the order the candles were found in
KeepOrder(obs) == obs

\* list.sort(key=confidence, reverse=True): stable, the most confident first
SortByConfidence(obs) ==
  LET Before(k, i) ==
        \/ obs[k].confidence > obs[i].confidence
        \/ obs[k].confidence = obs[i].confidence /\ k < i
  IN [j \in DOMAIN obs |->
        obs[CHOOSE i \in DOMAIN obs :
              Cardinality({k \in DOMAIN obs : Before(k, i)}) = j - 1]]

\* detect_order_blocks: the candidates among the last 30 rows, the three
\* most confident of them
DetectOrderBlocks(df, structure, indicators) ==
  IF structure.trend = "sideways" THEN <<>>
  ELSE LET recent_df == DfTail(df, 30)
           m == Len(recent_df)
           atr == AtrOf(indicators, recent_df)
           volume_sum == ColumnSum(recent_df, "volume")
           Body(c) == Abs(c.close - c.open)
           Skipped(c) ==
             \/ c.volume * m * 10 < volume_sum * 14
             \/ Body(c) * 2 < c.high - c.low
           BigBody(c) ==
             ~IsNaN(atr.num) /\ Body(c) * atr.den * 10 > atr.num * 7
           future_data(i) == SubSeq(recent_df, i + 1, m)
           IsBullish(i) ==
             /\ structure.trend = "uptrend"
             /\ recent_df[i].close > recent_df[i].open
             /\ BigBody(recent_df[i])
             /\ ColumnMax(future_data(i), "high") * 1000
                  > recent_df[i].high * 1015
           IsBearish(i) ==
             /\ structure.trend = "downtrend"
             /\ recent_df[i].close < recent_df[i].open
             /\ BigBody(recent_df[i])
             /\ ColumnMin(future_data(i), "low") * 1000
                  < recent_df[i].low * 985
           found ==
             Ascending({i \in 4..(m - 1) :
                          /\ ~Skipped(recent_df[i])
                          /\ IsBullish(i) \/ IsBearish(i)})
           OrderBlock(i) ==
             LET type == IF IsBullish(i) THEN "bullish" ELSE "bearish"
             IN [type |-> type, timestamp |-> Len(df) - m + i,
                 high |-> recent_df[i].high, low |-> recent_df[i].low,
                 confidence |->
                   CalculateObConfidenceHybrid(recent_df[i], recent_df, type,
                                               indicators),
                 volume |-> recent_df[i].volume]
           order_blocks == [j \in DOMAIN found |-> OrderBlock(found[j])]
       IN SubSeq(SortByConfidence(order_blocks), 1,
                 Min2(3, Len(order_blocks)))

\* detect_manipulation_phase, on the last 20 rows
DetectManipulationPhase(df, indicators) ==
  LET recent_df == DfTail(df, 20)
      m == Len(recent_df)
      atr == AtrOf(indicators, recent_df)
      range_high == ColumnMax(recent_df, "high")
      range_low == ColumnMin(recent_df, "low")
      range_size == range_high - range_low
      Touches(x, edge) ==
        IF ~IsNaN(atr.num) /\ atr.num > 0
        THEN Abs(x - edge) * atr.den * 100 <= atr.num * 25
        ELSE Abs(x - edge) * 1000 <= range_size * 8
      high_touches ==
        Cardinality({i \in DOMAIN recent_df :
                       Touches(recent_df[i].high, range_high)})
      low_touches ==
        Cardinality({i \in DOMAIN recent_df :
                       Touches(recent_df[i].low, range_low)})
      volume_sum == ColumnSum(recent_df, "volume")
      volume_spikes ==
        Cardinality({i \in DOMAIN recent_df :
                       recent_df[i].volume * m * 10 > volume_sum * 16})
      structure_strength == Get(indicators, "structure_strength", "weak")
      hybrid_confidence == Get(indicators, "hybrid_confidence", 50)
      base_manipulation ==
        /\ high_touches >= 2 /\ low_touches >= 2
        /\ ~IsNaN(atr.num) /\ range_size * atr.den < atr.num * 5
      volume_confirmation == volume_spikes >= 2
      hybrid_confirmation ==
        structure_strength \in {"strong", "very_strong"}
        /\ hybrid_confidence > 60
  IN [is_manipulation_phase |->
        base_manipulation /\ (volume_confirmation \/ hybrid_confirmation),
      range_high |-> range_high, range_low |-> range_low,
      range_size |-> range_size, atr |-> AtrValue(atr),
      high_touches |-> high_touches, low_touches |-> low_touches,
      volume_spikes |-> volume_spikes,
      hybrid_confirmation |-> hybrid_confirmation,
      confidence_score |-> hybrid_confidence]

(***************************************************************************)
(* One call of generate_trading_signal_hybrid, on arguments as             *)
(* analyze_single_coin passes them.  An argument the call does not read on *)
(* its path (the oscillators and the 24h volume when no branch is entered, *)
(* the ATR when nothing is emitted) takes one representative value.        *)
(***************************************************************************)
\* the wall-clock time of the call
HyNow == 1

\* the moving averages of the last row, around its close of 50
MaRow(sma, ema) ==
  [close |-> 50, SMA_20 |-> sma[1], SMA_50 |-> sma[2], SMA_100 |-> sma[3],
   SMA_200 |-> sma[4], EMA_9 |-> ema[1], EMA_12 |-> ema[2],
   EMA_21 |-> ema[3]]

MaRows ==
  {MaRow(<<40, 30, 20, 10>>, <<40, 30, 20>>),
   MaRow(<<60, 70, 80, 90>>, <<60, 70, 80>>),
   MaRow(<<40, 40, 40, 40>>, <<40, 40, 60>>),
   MaRow(<<60, 60, 40, 40>>, <<40, 40, 40>>),
   MaRow(<<40, 30, 20, NaN>>, <<40, 30, NaN>>),
   MaRow(<<40, 30, NaN, NaN>>, <<40, 30, 20>>),
   MaRow(<<60, 70, NaN, NaN>>, <<60, 70, 80>>)}

VolumeTrends == {NaN, 0, 20}

BbBands ==
  {[BBU |-> NaN, BBM |-> NaN, BBL |-> NaN],
   [BBU |-> 70, BBM |-> 60, BBL |-> 30],
   [BBU |-> 70, BBM |-> 40, BBL |-> 30]}

OscRows ==
  {[RSI_14 |-> r, MACD_12_26_9 |-> m, MACDs_12_26_9 |-> 0] @@ b :
     r \in {NaN, 30, 60}, m \in {NaN, -10, 10}, b \in BbBands}

OscQuiet ==
  [RSI_14 |-> NaN, MACD_12_26_9 |-> NaN, MACDs_12_26_9 |-> 0,
   BBU |-> NaN, BBM |-> NaN, BBL |-> NaN]

MaxAtr == 2

\* an ATR that detect_manipulation_phase found the range below five times of
Atrs == {10 * k : k \in 1..MaxAtr}

\* the 24h quote volume of the ticker
Volumes == {None, 0, 6000000}

\* swing high, swing low and last close of the zone window
ZoneInputs ==
  {<<50, 50, 50>>, <<150, 50, 50>>, <<70, 40, 50>>, <<60, 40, 50>>,
   <<60, 30, 50>>, <<50, 10, 50>>}

\* the candidates detect_order_blocks returns: of one type (that of the
\* trend), sorted by falling confidence, candles of the last 30 and so
\* within the zone window
ObCandle(type, confidence, k) ==
  LET low == IF type = "bullish" THEN 40 + 10 * k ELSE 20 + 10 * k
  IN [type |-> type, confidence |-> confidence, low |-> low,
      high |-> low + 10]

ObsInWindow(order_blocks, zone) ==
  \A i \in DOMAIN order_blocks :
    zone[2] <= order_blocks[i].low /\ order_blocks[i].high <= zone[1]

OrderBlockLists(type) ==
  {<<ObCandle(type, c, 1)>> : c \in {65, 95}}
  \cup {<<ObCandle(type, 95, k), ObCandle(type, 75, 3 - k)>> : k \in {1, 2}}
  \cup {<<ObCandle(type, 75, 1), ObCandle(type, 65, 2)>>}

StructureInputs ==
  {[structure |-> [trend |-> t], order_blocks |-> <<>>] :
     t \in {"uptrend", "downtrend", "sideways"}}
  \cup {[structure |-> [trend |-> "uptrend"], order_blocks |-> obs] :
          obs \in OrderBlockLists("bullish")}
  \cup {[structure |-> [trend |-> "downtrend"], order_blocks |-> obs] :
          obs \in OrderBlockLists("bearish")}

\* the part of the dict of detect_manipulation_phase the signal reads
ManipulationOf(is_manipulation, atr) ==
  [is_manipulation_phase |-> is_manipulation, atr |-> atr]

\* the state the call ends in: its arguments and what it returns or raises
HyDone(s, zone, manipulation, indicators, market_data) ==
  LET discount_premium == ZoneOf(zone[1], zone[2], zone[3], indicators)
  IN [pc |-> "done", structure |-> s.structure,
      order_blocks |-> s.order_blocks,
      discount_premium |-> discount_premium,
      manipulation |-> manipulation, indicators |-> indicators,
      market_data |-> market_data,
      out |-> GenerateTradingSignalHybrid(
                HyNow, zone[3], s.structure, s.order_blocks,
                discount_premium, manipulation, indicators, market_data)]

InitHY ==
  hy = [pc |-> "start"] /\ st = Idle /\ ent = Idle /\ pipe = Idle /\ uc = Idle
  /\ run = Idle /\ an = Idle /\ tn = Idle

\* the call on the indicators of a window under 50 candles: the empty dict,
\* with the mean candle range as the ATR of the manipulation dict
GenerateTradingSignalHybridShort ==
  /\ hy.pc = "start"
  /\ UNCHANGED notHY
  /\ \E s \in StructureInputs, zone \in ZoneInputs,
        is_manipulation \in BOOLEAN, atr \in {0} \cup Atrs :
       /\ is_manipulation => atr > 0
       /\ ObsInWindow(s.order_blocks, zone)
       /\ hy' = HyDone(s, zone, ManipulationOf(is_manipulation, atr),
                       EmptyDict, [volume_24h |-> 0])

\* the call on the indicators of a window of 50 candles or more
GenerateTradingSignalHybridCall ==
  /\ hy.pc = "start"
  /\ UNCHANGED notHY
  /\ \E ma \in MaRows, volume_trend \in VolumeTrends, s \in StructureInputs,
        zone \in ZoneInputs, is_manipulation \in BOOLEAN :
       /\ ObsInWindow(s.order_blocks, zone)
       /\ LET Ind(osc, atr) ==
                IndicatorsOf(ma @@ osc @@ [ATR_14 |-> atr], volume_trend)
              Gate(ind) ==
                HybridGate(s.order_blocks,
                           ZoneOf(zone[1], zone[2], zone[3], ind),
                           ManipulationOf(is_manipulation, ind.atr), ind)
              Score(ind, md) ==
                HybridScore(Gate(ind).branch,
                            ZoneOf(zone[1], zone[2], zone[3], ind), ind, md)
              Done(ind, md) ==
                HyDone(s, zone, ManipulationOf(is_manipulation, ind.atr), ind,
                       md)
          IN IF ~is_manipulation
             THEN \E atr \in {NaN, 10} :
                    hy' = Done(Ind(OscQuiet, atr), [volume_24h |-> 0])
             ELSE IF Gate(Ind(OscQuiet, 10)).branch = "none"
             THEN hy' = Done(Ind(OscQuiet, 10), [volume_24h |-> 0])
             ELSE \E osc \in OscRows, volume_24h \in Volumes :
                    LET md == [volume_24h |-> volume_24h]
                        sc == Score(Ind(osc, 10), md)
                    IN IF sc.exc # ""
                            \/ ~Emits(FinalConfidence(sc.hybrid_score))
                       THEN hy' = Done(Ind(osc, 10), md)
                       ELSE \E atr \in Atrs : hy' = Done(Ind(osc, atr), md)

\* the part the signal reads of the dict detect_manipulation_phase returns
\* when it failed (lines 946-952)
ManipulationDefault == ManipulationOf(FALSE, 0)

\* the call after a failed detect_manipulation_phase, on the indicators of a
\* window of 50 candles or more
GenerateTradingSignalHybridAfterFailure ==
  /\ hy.pc = "start"
  /\ UNCHANGED notHY
  /\ \E ma \in MaRows, volume_trend \in VolumeTrends, s \in StructureInputs,
        zone \in ZoneInputs, atr \in {NaN, 10} :
       /\ ObsInWindow(s.order_blocks, zone)
       /\ hy' = HyDone(s, zone, ManipulationDefault,
                       IndicatorsOf(ma @@ OscQuiet @@ [ATR_14 |-> atr],
                                    volume_trend),
                       [volume_24h |-> 0])

NextHY ==
  \/ GenerateTradingSignalHybridShort
  \/ GenerateTradingSignalHybridCall
  \/ GenerateTradingSignalHybridAfterFailure

SpecHY == InitHY /\ [][NextHY]_vars

(***************************************************************************)
(* One construction of an entity of domain/entities.py.                    *)
(***************************************************************************)
MaxOHLC == 3

\* the prices and volumes handed to MarketData: negative, zero and positive
OhlcInputs == -1..MaxOHLC

VolumeInputs == -1..1

\* MarketData.__post_init__: "" when the candle is accepted, else the
\* exception it raises
MarketDataPostInit(md) ==
  IF md.high < md.low THEN "ValueError"
  ELSE IF md.open <= 0 \/ md.close <= 0 THEN "ValueError"
  ELSE IF md.volume < 0 THEN "ValueError"
  ELSE ""

InitENT ==
  ent = [pc |-> "start"] /\ st = Idle /\ hy = Idle /\ pipe = Idle /\ uc = Idle
  /\ run = Idle /\ an = Idle /\ tn = Idle

\* MarketData(symbol, timeframe, timestamp, open, high, low, close, volume)
ConstructMarketData ==
  /\ ent.pc = "start"
  /\ UNCHANGED notENT
  /\ \E open \in OhlcInputs, high \in OhlcInputs, low \in OhlcInputs,
        close \in OhlcInputs, volume \in VolumeInputs :
       LET md == [open |-> open, high |-> high, low |-> low,
                  close |-> close, volume |-> volume]
       IN ent' = [pc |-> "done", kind |-> "MarketData", kwargs |-> md,
                  exc |-> MarketDataPostInit(md)]

\* TradingSignal(symbol, signal_type, timestamp, price, supertrend_value,
\* trend_direction, confidence, stop_loss, take_profit)
ConstructTradingSignal ==
  /\ ent.pc = "start"
  /\ UNCHANGED notENT
  /\ \E signal_type \in {"BUY", "SELL", "HOLD"}, price \in {0, 20},
        confidence \in {-1, 0, 50, 100, 101},
        stop_loss \in {None, 10, 30}, take_profit \in {None, 10, 30} :
       LET kwargs == [symbol |-> "SYM", signal_type |-> signal_type,
                      timestamp |-> 0, price |-> price,
                      supertrend_value |-> 10, trend_direction |-> BULLISH,
                      confidence |-> confidence, stop_loss |-> stop_loss,
                      take_profit |-> take_profit]
       IN ent' = [pc |-> "done", kind |-> "TradingSignal",
                  kwargs |-> kwargs, exc |-> NewTradingSignal(kwargs).exc]

NextENT == ConstructMarketData \/ ConstructTradingSignal

SpecENT == InitENT /\ [][NextENT]_vars


(***************************************************************************)
(* analyze_single_coin on one symbol, run and run again on the same        *)
(* candles.  The columns pandas-ta appends are inputs: the last row of     *)
(* them is chosen with the NaNs the length of the frame forces (at most    *)
(* 100 rows are fetched, so SMA_200 is never there, and SMA_100 only with  *)
(* all 100).                                                               *)
(***************************************************************************)
\* fetch_ohlcv(symbol, '4h', 100)
FetchLimit == 100

\* calculate_technical_indicators returns {} under this many rows
MinRows == 50

\* a candle from its open and close: a wick of one tenth past the close, none
\* past the open
Candle(open, close, volume) ==
  [open |-> open, close |-> close, volume |-> volume,
   high |-> IF close >= open THEN close + 1 ELSE open,
   low |-> IF close >= open THEN open ELSE close - 1]

\* the closes of a decline from 86 to 44 followed by a range with rising
\* swing lows (rows 22 and 31) and swing highs (rows 27 and 35), ending at
\* 50 in row 40
AccumulationClose(t) ==
  IF t <= 1 THEN 86
  ELSE IF t <= 22 THEN 88 - 2 * t
  ELSE IF t <= 27 THEN 44 + 2 * (t - 22)
  ELSE IF t <= 31 THEN 54 - 2 * (t - 27)
  ELSE IF t <= 35 THEN 46 + 3 * (t - 31)
  ELSE IF t <= 38 THEN 58 - 2 * (t - 35)
  ELSE 52 - (t - 38)

\* its candles: two of the rising ones of the last leg carry four times the
\* volume
AccumulationRow(t) ==
  Candle(AccumulationClose(t - 1), AccumulationClose(t),
         IF t \in {32, 33} THEN 40 ELSE 10)

\* the same candle with the prices reflected at 50
Mirror(c) ==
  [open |-> 100 - c.open, high |-> 100 - c.low, low |-> 100 - c.high,
   close |-> 100 - c.close, volume |-> c.volume]

FlatRow(volume) ==
  [open |-> 50, high |-> 50, low |-> 50, close |-> 50, volume |-> volume]

\* the candles of a frame that sat at 10 before row 10 took it up to where
\* the accumulation candles go on from
MarkupRow(t) ==
  IF t < 10 THEN [open |-> 10, high |-> 10, low |-> 10, close |-> 10,
                  volume |-> 10]
  ELSE IF t = 10 THEN Candle(10, AccumulationClose(10), 10)
  ELSE AccumulationRow(t)

Shapes == {"flat", "flat_no_volume", "accumulation", "distribution", "markup"}

IsFlat(shape) == shape \in {"flat", "flat_no_volume"}

\* the frame fetch_ohlcv returns: n rows of a shape, the last row the same
\* for every n
SeriesOf(shape, n) ==
  [i \in 1..n |->
     CASE shape = "flat" -> FlatRow(10)
       [] shape = "flat_no_volume" -> FlatRow(0)
       [] shape = "accumulation" -> AccumulationRow(40 - n + i)
       [] shape = "markup" -> MarkupRow(40 - n + i)
       [] OTHER -> Mirror(AccumulationRow(40 - n + i))]

SeriesLens == {0, 1, 10, 19, 20, 30, 40, 49, MinRows, 60, FetchLimit}

\* what stands for the last row of a frame no indicator is computed of
NoRow == [close |-> 50]

\* the last row of the frame with the indicator columns
LatestRows(shape, n) ==
  IF n < MinRows THEN {NoRow}
  ELSE LET Sma100(x) == IF n < 100 THEN NaN ELSE x
           mas ==
             IF IsFlat(shape)
             THEN {MaRow(<<50, 50, Sma100(50), NaN>>, <<50, 50, 50>>)}
             ELSE {MaRow(<<40, 30, Sma100(20), NaN>>, <<40, 30, 20>>),
                   MaRow(<<60, 70, Sma100(80), NaN>>, <<60, 70, 80>>)}
           oscs ==
             {OscQuiet,
              [RSI_14 |-> 30, MACD_12_26_9 |-> 10, MACDs_12_26_9 |-> 0,
               BBU |-> 70, BBM |-> 60, BBL |-> 30],
              [RSI_14 |-> 70, MACD_12_26_9 |-> -10, MACDs_12_26_9 |-> 0,
               BBU |-> 70, BBM |-> 40, BBL |-> 30]}
           atrs == IF IsFlat(shape) THEN {NaN, 0} ELSE {NaN, 4}
       IN {ma @@ osc @@ [ATR_14 |-> atr] :
             ma \in mas, osc \in oscs, atr \in atrs}

\* calculate_technical_indicators, with the last row of the columns given
CalculateTechnicalIndicators(df, latest) ==
  IF df = <<>> \/ Len(df) < MinRows THEN EmptyDict
  ELSE IndicatorsOf(latest, GetVolumeTrend(df))

\* analyze_single_coin, lines 961-992, on the fetched frame: the signal dict
\* with the symbol and the market data, or the dict of an error
AnalyzeSingleCoin(now, df, market_data, latest) ==
  IF df = <<>> THEN [error |-> "No data available"]
  ELSE LET indicators == CalculateTechnicalIndicators(df, latest)
           structure == DetectMarketStructure(df)
           order_blocks == DetectOrderBlocks(df, structure, indicators)
           discount_premium == CheckDiscountPremium(df, indicators)
           manipulation == DetectManipulationPhase(df, indicators)
           out == GenerateTradingSignalHybrid(
                    now, df[Len(df)].close, structure, order_blocks,
                    discount_premium, manipulation, indicators, market_data)
       IN IF out.exc # "" THEN [error |-> out.exc, symbol |-> "SYM"]
          ELSE [out.signal EXCEPT !.analysis = market_data @@ @]
                 @@ [symbol |-> "SYM"]

\* no result of an earlier run
NoResult == [error |-> "not run"]

InitPIPE ==
  pipe = [pc |-> "start"] /\ st = Idle /\ hy = Idle /\ ent = Idle /\ uc = Idle
  /\ run = Idle /\ an = Idle /\ tn = Idle

\* fetch_ohlcv: the frame of the symbol, empty when nothing came
FetchOhlcv ==
  /\ pipe.pc = "start"
  /\ UNCHANGED notPIPE
  /\ \E shape \in Shapes, n \in SeriesLens :
     \E latest \in LatestRows(shape, n) :
       /\ n = 0 => shape = "flat"
       /\ pipe' = [pc |-> "fetched", run |-> 1, shape |-> shape, n |-> n,
                   latest |-> latest, now |-> 0, first |-> NoResult]

\* analyze_single_coin after the fetch: the ticker is read, the analyses
\* run, and the signal is stamped with the clock
AnalyzeSingleCoinRun ==
  /\ pipe.pc = "fetched"
  /\ UNCHANGED notPIPE
  /\ \E volume_24h \in Volumes, now \in {pipe.now, pipe.now + 1} :
       /\ IF pipe.n = 0 THEN volume_24h = 0 /\ now = pipe.now ELSE now > 0
       /\ pipe' = [pc |-> "done", run |-> pipe.run, shape |-> pipe.shape,
                   n |-> pipe.n, latest |-> pipe.latest, now |-> now,
                   first |-> pipe.first,
                   result |->
                     AnalyzeSingleCoin(now, SeriesOf(pipe.shape, pipe.n),
                                       [volume_24h |-> volume_24h],
                                       pipe.latest)]

\* the next run of the analysis fetches the same candles again
FetchOhlcvAgain ==
  /\ pipe.pc = "done" /\ pipe.run = 1
  /\ UNCHANGED notPIPE
  /\ pipe' = [pc |-> "fetched", run |-> 2, shape |-> pipe.shape,
              n |-> pipe.n, latest |-> pipe.latest, now |-> pipe.now,
              first |-> pipe.result]

NextPIPE == FetchOhlcv \/ AnalyzeSingleCoinRun \/ FetchOhlcvAgain

SpecPIPE == InitPIPE /\ [][NextPIPE]_vars

(***************************************************************************)
(* application/use_cases.py: one run of TradingUseCase.analyze_and_notify. *)
(* The pairs are analysed by coroutines gathered on one event loop: a      *)
(* coroutine runs alone from one await of a collaborator to the next, and  *)
(* every such stretch is one step here.  The exchange, the analysis        *)
(* service and the notifier are collaborators behind the interfaces of     *)
(* domain/services.py; what they return or raise is chosen.                *)
(***************************************************************************)
\* settings.TRADING_PAIRS
Pairs == {"BTC/USDT", "ETH/USDT"}

\* _analyze_single_pair raises under this many bars
MinBars == 50

\* what exchange.get_ohlcv_data does: raises, or returns a list of bars (it
\* raises rather than return an empty one)
FetchOutcomes ==
  {[exc |-> "ValueError", bars |-> 0]}
    \cup {[exc |-> "", bars |-> n] : n \in {MinBars - 1, MinBars}}

\* what technical_analysis.analyze_market does: raises, or returns an
\* AnalysisResult with or without a signal
AnalysisOutcomes(pair) ==
  {[exc |-> "Exception", result |-> [symbol |-> pair, signal |-> NoSignal]]}
    \cup {[exc |-> "", result |-> [symbol |-> pair, signal |-> sg]] :
            sg \in {NoSignal, [signal_type |-> "HOLD"],
                    [signal_type |-> "BUY"]}}

\* what telegram_service.send_signal_notification does: returns True or
\* False, or raises
NotifyOutcomes == {"True", "False", "raise"}

\* _send_signal_notification: the collaborator's answer, False when it raised
SendSignalNotification(outcome) == outcome = "True"

\* the results dict of analyze_and_notify
NewResults ==
  [pairs_analyzed |-> 0, signals_generated |-> 0, notifications_sent |-> 0,
   errors |-> <<>>, analysis_results |-> <<>>]

\* no fetch made yet
NoFetch == [exc |-> "not fetched", bars |-> 0]

NewTask ==
  [pc |-> "ready", fetches |-> 0, analyses |-> 0, sends |-> 0,
   fetched |-> NoFetch, outcome |-> "", success |-> FALSE]

\* the same check with every fetch let through
FetchRejectedNever(f) == FALSE

\* _analyze_single_pair, lines 155-162: the exception of the fetch goes up,
\* and so does a ValueError for no bars or fewer than 50
FetchRejected(f) == f.exc # "" \/ f.bars = 0 \/ f.bars < MinBars

\* what a coroutine writes in the shared dict when the analysis returned, as
\* every coroutine would write it from its own copy of the dict
RecordResultOwnCopy(results, entry) ==
  [NewResults EXCEPT !.analysis_results = <<entry>>, !.pairs_analyzed = 1,
                     !.errors = results.errors,
                     !.signals_generated = results.signals_generated,
                     !.notifications_sent = results.notifications_sent]

\* _analyze_and_notify_single_pair, lines 118-119
RecordResult(results, entry) ==
  [results EXCEPT !.analysis_results = Append(@, entry),
                  !.pairs_analyzed = @ + 1]

\* the same handler with the error left unrecorded
RecordErrorDropped(results, pair) == results

\* lines 135-137
RecordError(results, pair) ==
  [results EXCEPT !.errors = Append(@, pair)]

\* the same lines counting a signal whatever the notifier answered
RecordNotifiedAnyway(results, success) ==
  [results EXCEPT !.notifications_sent = @ + 1, !.signals_generated = @ + 1]

\* lines 124-126
RecordNotified(results, success) ==
  IF success
  THEN [results EXCEPT !.notifications_sent = @ + 1,
                       !.signals_generated = @ + 1]
  ELSE results

\* where the coroutine goes after the notifier answered, were it to ask again
\* on a failure
AfterNotifyRetry(outcome) ==
  IF SendSignalNotification(outcome) THEN "done" ELSE "notifying"

\* lines 122-132: whatever the notifier answered, the coroutine logs and
\* returns
AfterNotify(outcome) == "done"

\* what exchange.test_connection and telegram_service.test_connection do:
\* return True or False, or raise
TestOutcomes == {"True", "False", "raise"}

\* the same tests with the second made whatever came of the first
TestConnectionsBoth(exchange_test, telegram_test) ==
  [tests |-> <<[service |-> "exchange", outcome |-> exchange_test],
               [service |-> "telegram", outcome |-> telegram_test]>>,
   ok |-> exchange_test = "True" /\ telegram_test = "True"]

\* _test_connections: the tests made, in their order, and whether it
\* returned; a test that returns False or raises ends it with a
\* ConnectionError
TestConnections(exchange_test, telegram_test) ==
  IF exchange_test # "True"
  THEN [tests |-> <<[service |-> "exchange", outcome |-> exchange_test]>>,
        ok |-> FALSE]
  ELSE [tests |-> <<[service |-> "exchange", outcome |-> exchange_test],
                    [service |-> "telegram", outcome |-> telegram_test]>>,
        ok |-> telegram_test = "True"]

\* the messages handed to telegram_service.send_custom_message, by kind
NoMessages == [error |-> 0, critical |-> 0, summary |-> 0]

\* the same helpers with the switch ignored
SendCustomMessageAnyway(messages, kind, enabled) ==
  [messages EXCEPT ![kind] = @ + 1]

\* _send_error_notification, _send_critical_error_notification and
\* _send_summary_notification: with ENABLE_NOTIFICATIONS off they return at
\* once, otherwise the message is handed to send_custom_message
SendCustomMessage(messages, kind, enabled) ==
  IF enabled THEN [messages EXCEPT ![kind] = @ + 1] ELSE messages

\* the same test passing every run
SummaryDueAlways(results) == TRUE

\* line 89
SummaryDue(results) == results.signals_generated > 0

InitUC ==
  uc = [pc |-> "start"] /\ st = Idle /\ hy = Idle /\ ent = Idle /\ pipe = Idle
  /\ run = Idle /\ an = Idle /\ tn = Idle

\* analyze_and_notify up to asyncio.gather: the connections are tested and a
\* coroutine is created for every pair
AnalyzeAndNotify ==
  /\ uc.pc = "start"
  /\ UNCHANGED notUC
  /\ \E enabled \in BOOLEAN, exchange_test \in TestOutcomes,
        telegram_test \in TestOutcomes :
       LET tested == TestConnections(exchange_test, telegram_test)
       IN uc' = IF tested.ok
                THEN [pc |-> "gather", enabled |-> enabled,
                      tests |-> tested.tests, messages |-> NoMessages,
                      summary_failed |-> FALSE,
                      results |-> NewResults, writers |-> {},
                      task |-> [p \in Pairs |-> NewTask]]
                ELSE [pc |-> "raised", enabled |-> enabled,
                      tests |-> tested.tests,
                      messages |->
                        SendCustomMessage(NoMessages, "critical", enabled),
                      summary_failed |-> FALSE,
                      results |-> RecordError(NewResults, "critical"),
                      writers |-> {},
                      task |-> [p \in Pairs |-> NewTask]]

\* a coroutine starts and awaits exchange.get_ohlcv_data
TaskFetch(p) ==
  /\ uc.pc = "gather" /\ uc.task[p].pc = "ready"
  /\ UNCHANGED notUC
  /\ uc' = [uc EXCEPT !.task[p].pc = "fetching", !.task[p].fetches = @ + 1]

\* the fetch is over: on an exception or under 50 bars the error is recorded
\* and the error notification awaited, otherwise analyze_market is awaited
TaskFetched(p) ==
  /\ uc.pc = "gather" /\ uc.task[p].pc = "fetching"
  /\ UNCHANGED notUC
  /\ \E f \in FetchOutcomes :
       IF FetchRejected(f)
       THEN uc' = [uc EXCEPT !.task[p].pc = "error_notify",
                             !.task[p].fetched = f,
                             !.task[p].outcome = "error",
                             !.results = RecordError(@, p),
                             !.messages =
                               SendCustomMessage(@, "error", uc.enabled),
                             !.writers = @ \cup {p}]
       ELSE uc' = [uc EXCEPT !.task[p].pc = "analyzing",
                             !.task[p].fetched = f,
                             !.task[p].analyses = @ + 1]

\* analyze_market is over: the result is recorded and, with a signal, the
\* notification awaited; an exception is recorded as an error
TaskAnalyzed(p) ==
  /\ uc.pc = "gather" /\ uc.task[p].pc = "analyzing"
  /\ UNCHANGED notUC
  /\ \E a \in AnalysisOutcomes(p) :
       IF a.exc # ""
       THEN uc' = [uc EXCEPT !.task[p].pc = "error_notify",
                             !.task[p].outcome = "error",
                             !.results = RecordError(@, p),
                             !.messages =
                               SendCustomMessage(@, "error", uc.enabled),
                             !.writers = @ \cup {p}]
       ELSE IF ~HasSignal(a.result)
       THEN uc' = [uc EXCEPT !.task[p].pc = "done",
                             !.task[p].outcome = "hold",
                             !.results = RecordResult(@, a.result),
                             !.writers = @ \cup {p}]
       ELSE IF uc.enabled
       THEN uc' = [uc EXCEPT !.task[p].pc = "notifying",
                             !.task[p].outcome = "signal",
                             !.task[p].sends = @ + 1,
                             !.results = RecordResult(@, a.result),
                             !.writers = @ \cup {p}]
       ELSE uc' = [uc EXCEPT !.task[p].pc = "done",
                             !.task[p].outcome = "signal",
                             !.task[p].success = TRUE,
                             !.results =
                               RecordNotified(RecordResult(@, a.result), TRUE),
                             !.writers = @ \cup {p}]

\* the notifier has answered
TaskNotified(p) ==
  /\ uc.pc = "gather" /\ uc.task[p].pc = "notifying"
  /\ UNCHANGED notUC
  /\ \E outcome \in NotifyOutcomes :
       uc' = [uc EXCEPT
                !.task[p].pc = AfterNotify(outcome),
                !.task[p].sends =
                  IF AfterNotify(outcome) = "notifying" THEN @ + 1 ELSE @,
                !.task[p].success = SendSignalNotification(outcome),
                !.results =
                  RecordNotified(@, SendSignalNotification(outcome))]

\* _send_error_notification is over, whatever came of it
TaskErrorNotified(p) ==
  /\ uc.pc = "gather" /\ uc.task[p].pc = "error_notify"
  /\ UNCHANGED notUC
  /\ uc' = [uc EXCEPT !.task[p].pc = "done"]

\* asyncio.gather returns when every coroutine has; lines 88-110: the
\* summary is sent when signals were generated, its failure is logged, and
\* the results are returned
Gathered ==
  /\ uc.pc = "gather"
  /\ \A p \in Pairs : uc.task[p].pc = "done"
  /\ UNCHANGED notUC
  /\ \E summary_raises \in BOOLEAN :
       IF SummaryDue(uc.results)
       THEN uc' = [uc EXCEPT
                     !.pc = "done",
                     !.messages = SendCustomMessage(@, "summary", uc.enabled),
                     !.summary_failed = uc.enabled /\ summary_raises]
       ELSE uc' = [uc EXCEPT !.pc = "done"]

NextUC ==
  \/ AnalyzeAndNotify
  \/ \E p \in Pairs : TaskFetch(p)
  \/ \E p \in Pairs : TaskFetched(p)
  \/ \E p \in Pairs : TaskAnalyzed(p)
  \/ \E p \in Pairs : TaskNotified(p)
  \/ \E p \in Pairs : TaskErrorNotified(p)
  \/ Gathered

SpecUC == InitUC /\ [][NextUC]_vars

(***************************************************************************)
(* main.py: one run of run_multi_coin_analysis.  With parallel_analysis    *)
(* every symbol is submitted to a thread pool and the calling thread       *)
(* collects the futures as they complete; without it the symbols are       *)
(* analysed and collected one after the other.  What analyze_single_coin   *)
(* fetches and returns is chosen among results of each kind.               *)
(***************************************************************************)
\* self.symbols[:max_coins]
symbols_to_analyze == <<"BTC/USDT", "ETH/USDT">>

Workers == DOMAIN symbols_to_analyze

\* a signal dict as far as should_send_notification reads it
SignalDict(symbol, action, confidence, hybrid_confidence) ==
  [symbol |-> symbol, action |-> action, confidence |-> confidence,
   analysis |-> [indicators |-> [hybrid_confidence |-> hybrid_confidence]]]

\* what analyze_single_coin returns once the candles are there
CoinResults(symbol) ==
  {[error |-> "TypeError", symbol |-> symbol],
   SignalDict(symbol, "hold", 0, 50),
   SignalDict(symbol, "hold", 0, 70),
   SignalDict(symbol, "buy", 88, 70),
   SignalDict(symbol, "sell", 78, 70)}

\* the settings should_send_notification reads: the 'notification' section
\* and min_confidence_for_signal of the strategy parameters
NotificationConfigs(minimums) ==
  [enabled : BOOLEAN, send_individual_signals : BOOLEAN,
   only_high_confidence : BOOLEAN, min_confidence_for_signal : minimums]

\* should_send_notification without its first test
ShouldSendNotificationUngated(signal, config) ==
  IF config.only_high_confidence
       /\ (\/ signal.confidence < config.min_confidence_for_signal
           \/ signal.analysis.indicators.hybrid_confidence < HybridThreshold)
  THEN FALSE
  ELSE IF config.send_individual_signals
       THEN signal.action \in {"buy", "sell"}
       ELSE FALSE

\* should_send_notification, lines 1147-1169
ShouldSendNotification(signal, config) ==
  IF ~config.enabled THEN FALSE
  ELSE IF config.only_high_confidence
            /\ (\/ signal.confidence < config.min_confidence_for_signal
                \/ signal.analysis.indicators.hybrid_confidence
                     < HybridThreshold)
       THEN FALSE
       ELSE IF config.send_individual_signals
            THEN signal.action \in {"buy", "sell"}
            ELSE FALSE

\* the guard of lines 1199 and 1210
Notifies(result, config) ==
  "error" \notin DOMAIN result /\ ShouldSendNotification(result, config)

\* signal dicts of every action around the two thresholds, for a direct call
AskedConfidences == {0, 74, 75, 88}

AskedHybrids == {50, 64, 65, 70}

AskedMinimums == {MinConfidenceForSignal, 90}

AskedSignals ==
  {SignalDict("BTC/USDT", action, confidence, hybrid_confidence) :
     action \in {"hold", "buy", "sell"}, confidence \in AskedConfidences,
     hybrid_confidence \in AskedHybrids}

NewWorker ==
  [pc |-> "queued", fetches |-> 0, analyses |-> 0, sends |-> 0,
   empty |-> FALSE, result |-> NoResult]

InitRUN ==
  run = [pc |-> "start"] /\ st = Idle /\ hy = Idle /\ ent = Idle
  /\ pipe = Idle /\ uc = Idle /\ an = Idle /\ tn = Idle

\* run_multi_coin_analysis, lines 1176-1191: the symbols are submitted
RunMultiCoinAnalysis ==
  /\ run.pc = "start"
  /\ UNCHANGED notRUN
  /\ \E use_parallel \in BOOLEAN,
        config \in NotificationConfigs({MinConfidenceForSignal}) :
       run' = [pc |-> "pool", use_parallel |-> use_parallel,
               config |-> config,
               worker |-> [w \in Workers |-> NewWorker],
               results |-> [w \in {} |-> NoResult],
               writers |-> {}]

\* the worker's turn has come: always in the pool, after the symbols before
\* it in the loop
Scheduled(w) ==
  run.use_parallel \/ \A v \in Workers : v < w => v \in DOMAIN run.results

\* analyze_single_coin, line 960: the candles are fetched; without candles
\* the worker returns the error at once
WorkerFetch(w) ==
  /\ run.pc = "pool" /\ run.worker[w].pc = "queued" /\ Scheduled(w)
  /\ UNCHANGED notRUN
  /\ \E empty \in BOOLEAN :
       run' = [run EXCEPT
                 !.worker[w].fetches = @ + 1,
                 !.worker[w].empty = empty,
                 !.worker[w].pc = IF empty THEN "completed" ELSE "fetched",
                 !.worker[w].result =
                   IF empty THEN [error |-> "No data available"] ELSE @]

\* analyze_single_coin, lines 964-992: the analyses on the fetched candles
WorkerAnalyze(w) ==
  /\ run.pc = "pool" /\ run.worker[w].pc = "fetched"
  /\ UNCHANGED notRUN
  /\ \E result \in CoinResults(symbols_to_analyze[w]) :
       run' = [run EXCEPT !.worker[w].pc = "completed",
                          !.worker[w].analyses = @ + 1,
                          !.worker[w].result = result]

\* lines 1194-1201 and 1207-1212: the calling thread takes a completed
\* result, stores it and sends its report when it is to be notified
Collect(w) ==
  /\ run.pc = "pool" /\ run.worker[w].pc = "completed"
  /\ w \notin DOMAIN run.results
  /\ UNCHANGED notRUN
  /\ run' = [run EXCEPT
               !.results = (w :> run.worker[w].result) @@ @,
               !.writers = @ \cup {"caller"},
               !.worker[w].sends =
                 IF Notifies(run.worker[w].result, run.config)
                 THEN @ + 1 ELSE @]

\* lines 1214-1228: every future is collected, the summary is sent
SendSummaryReport ==
  /\ run.pc = "pool"
  /\ DOMAIN run.results = Workers
  /\ UNCHANGED notRUN
  /\ run' = [run EXCEPT !.pc = "done"]

\* should_send_notification called on a signal dict
AskShouldSendNotification ==
  /\ run.pc = "start"
  /\ UNCHANGED notRUN
  /\ \E signal \in AskedSignals, config \in NotificationConfigs(AskedMinimums) :
       run' = [pc |-> "asked", signal |-> signal, config |-> config,
               out |-> ShouldSendNotification(signal, config)]

NextRUN ==
  \/ RunMultiCoinAnalysis
  \/ AskShouldSendNotification
  \/ \E w \in Workers : WorkerFetch(w)
  \/ \E w \in Workers : WorkerAnalyze(w)
  \/ \E w \in Workers : Collect(w)
  \/ SendSummaryReport

SpecRUN == InitRUN /\ [][NextRUN]_vars

\* both ways of analysing several symbols in one run
InitRuns == InitUC \/ InitRUN

NextRuns == NextUC \/ NextRUN

SpecRuns == InitRuns /\ [][NextRuns]_vars

(***************************************************************************)
(* The candle analyses of main.py as functions of the frame: each is       *)
(* applied to frames drawn from families that make its cases happen.       *)
(***************************************************************************)
\* the turning points of a zigzag
ZigLevels == {40, 46, 52, 58}

\* bars from one turning point of a zigzag to the next
LegBars == 6

\* the close of bar t of the zigzag through the levels, bar 1 at the first
\* level and every LegBars-th bar after it at the next
ZigzagClose(levels, t) ==
  LET u == Max2(t, 1) - 1
      k == Min2(u \div LegBars + 1, Len(levels))
      next == Min2(k + 1, Len(levels))
  IN levels[k] + ((levels[next] - levels[k]) * (u % LegBars)) \div LegBars

\* the first n bars of the zigzag
ZigzagFrame(levels, n) ==
  [t \in 1..n |->
     Candle(ZigzagClose(levels, t - 1), ZigzagClose(levels, t), 10)]

\* zigzags of six turning points, and what is left of them after 19, 20, 25
\* and all 31 bars; too short for any indicator
ZigzagInputs ==
  {[df |-> ZigzagFrame(<<a, b, c, d, e, f>>, n), indicators |-> EmptyDict] :
     a \in {46, 52}, b \in ZigLevels, c \in ZigLevels, d \in ZigLevels,
     e \in ZigLevels, f \in {46, 52}, n \in {19, 20, 25, 31}}

\* where in a range of 1000 the last close of a zone frame lies: the
\* Fibonacci levels, the prices next to them, the middle and the ends
ZonePermilles ==
  {0, 235, 236, 237, 381, 382, 383, 500, 617, 618, 619, 763, 764, 765, 1000}

\* n - 1 bars from 1000 to 1000 + range, the first ten of 60 far outside
\* them, and a last bar at 1000 + close
ZoneFrame(n, range, close) ==
  [t \in 1..n |->
     IF t = n
     THEN [open |-> 1000 + close, high |-> 1000 + close,
           low |-> 1000 + close, close |-> 1000 + close, volume |-> 10]
     ELSE IF t <= n - 50
     THEN [open |-> 3000, high |-> 5000, low |-> 500, close |-> 3000,
           volume |-> 10]
     ELSE [open |-> 1000, high |-> 1000 + range, low |-> 1000,
           close |-> 1000 + range, volume |-> 10]]

\* the last row of the indicator columns of a zone frame: the averages at
\* the level of the bars before the last
ZoneLatest(range, close) ==
  [MaRow(<<1000 + range, 1000 + range, NaN, NaN>>,
         <<1000 + range, 1000 + range, 1000 + range>>)
     EXCEPT !.close = 1000 + close]
    @@ OscQuiet @@ [ATR_14 |-> NaN]

ZoneFrames ==
  LET Input(n, range, close) ==
        LET df == ZoneFrame(n, range, close)
        IN [df |-> df,
            indicators |->
              CalculateTechnicalIndicators(df, ZoneLatest(range, close))]
  IN {Input(n, 1000, close) : n \in {2, 60}, close \in ZonePermilles}
       \cup {Input(n, 0, 0) : n \in {2, 60}}

\* the volume of row t of a shaped series: of the rising candles of rows
\* 23..27 and 32..35 two, five or none stand out, or nothing was traded
VolumeProfiles == {"two", "five", "quiet", "silent"}

ProfileVolume(profile, t) ==
  CASE profile = "two" -> IF t \in {32, 33} THEN 40 ELSE 10
    [] profile = "five" ->
         IF t \in {24, 33} THEN 40 ELSE IF t \in {25, 32, 34} THEN 25 ELSE 10
    [] profile = "quiet" -> 10
    [] OTHER -> 0

ProfiledSeries(shape, n, profile) ==
  LET series == SeriesOf(shape, n)
  IN [i \in 1..n |->
        [series[i] EXCEPT !.volume = ProfileVolume(profile, 40 - n + i)]]

\* the ATR column's last value on a shaped series: none, or between the
\* ranges of its small and its large candles
ProfiledAtrs == {NaN, 2, 4}

ProfiledInputs ==
  LET Input(df, latest) ==
        [df |-> df, indicators |-> CalculateTechnicalIndicators(df, latest)]
  IN UNION {{Input(ProfiledSeries(shape, n, profile),
                   [latest EXCEPT !.ATR_14 = atr]) :
               latest \in LatestRows(shape, n), atr \in ProfiledAtrs} :
             shape \in {"accumulation", "distribution"}, n \in {MinRows, 60},
             profile \in VolumeProfiles}

\* a frame going up and down between two levels in steps of 3, half rows
\* each way, the last row (row 20) at the lower level; the first `spikes`
\* rows of the last rise carry four times the volume
RangeHalves == {2, 6}

RangeClose(half, t) ==
  LET d == (t + 100) % (2 * half)
  IN 40 + 3 * (IF d <= half THEN d ELSE 2 * half - d)

RangeFrame(half, spikes, n) ==
  [i \in 1..n |->
     LET t == 20 - n + i
     IN Candle(RangeClose(half, t - 1), RangeClose(half, t),
               IF t > 20 - 2 * half /\ t <= 20 - 2 * half + spikes
               THEN 40 ELSE 10)]

\* the ATR column's last value on such a frame: none, the range of its
\* candles, or above it
RangeAtrs == {NaN, 4, 5}

RangeInputs ==
  LET Latest(df, n) ==
        IF n < MinRows THEN {NoRow}
        ELSE {[latest EXCEPT !.ATR_14 = atr, !.close = df[n].close] :
                latest \in {r \in LatestRows("accumulation", n) :
                              r.RSI_14 = NaN},
                atr \in RangeAtrs}
      Inputs(df, n) ==
        {[df |-> df, indicators |-> CalculateTechnicalIndicators(df, latest)] :
           latest \in Latest(df, n)}
  IN UNION {Inputs(RangeFrame(half, spikes, n), n) :
              half \in RangeHalves, spikes \in 0..2,
              n \in {20, MinRows, FetchLimit}}

AnInputs == ZigzagInputs \cup ZoneFrames \cup ProfiledInputs \cup RangeInputs

\* the frame and the indicators an analysis is applied to
InitAN ==
  /\ an \in {[pc |-> "input"] @@ input : input \in AnInputs}
  /\ st = Idle /\ hy = Idle /\ ent = Idle /\ pipe = Idle /\ uc = Idle
  /\ run = Idle /\ tn = Idle

ApplyDetectMarketStructure ==
  /\ an.pc = "input"
  /\ UNCHANGED notAN
  /\ an' = [pc |-> "structure", df |-> an.df, indicators |-> an.indicators,
            structure |-> DetectMarketStructure(an.df)]

ApplyCheckDiscountPremium ==
  /\ an.pc = "input"
  /\ UNCHANGED notAN
  /\ an' = [pc |-> "zone", df |-> an.df, indicators |-> an.indicators,
            discount_premium |-> CheckDiscountPremium(an.df, an.indicators)]

\* detect_order_blocks on the structure detect_market_structure found, as
\* analyze_single_coin calls it
ApplyDetectOrderBlocks ==
  /\ an.pc = "input"
  /\ UNCHANGED notAN
  /\ an' = [pc |-> "order_blocks", df |-> an.df,
            indicators |-> an.indicators,
            structure |-> DetectMarketStructure(an.df),
            order_blocks |->
              DetectOrderBlocks(an.df, DetectMarketStructure(an.df),
                                an.indicators)]

ApplyDetectManipulationPhase ==
  /\ an.pc = "input"
  /\ UNCHANGED notAN
  /\ an' = [pc |-> "manipulation", df |-> an.df,
            indicators |-> an.indicators,
            manipulation |-> DetectManipulationPhase(an.df, an.indicators)]

NextAN ==
  \/ ApplyDetectMarketStructure
  \/ ApplyCheckDiscountPremium
  \/ ApplyDetectOrderBlocks
  \/ ApplyDetectManipulationPhase

SpecAN == InitAN /\ [][NextAN]_vars

(***************************************************************************)
(* main.py: one TelegramNotifier and the threads that call its             *)
(* send_message, each once.  The notifier holds one threading.Lock; the    *)
(* post and the pause after it are made inside 'with self._lock'.          *)
(***************************************************************************)
NumThreads == 3

Threads == 1..NumThreads

\* the token and the chat id, as given or read from the environment: set or
\* missing
Credentials == {"", "set"}

\* threading.Lock: 0 when free, else the thread that holds it
Unlocked == 0

\* a lock that can always be taken
LockFreeAlways(lock) == TRUE

\* Lock.acquire blocks until the lock is free
LockFree(lock) == lock = Unlocked

\* what requests.post and raise_for_status come to: a 2xx response, an
\* error status, or an exception of the request (the timeout among them)
PostOutcomes == {"ok", "HTTPError", "RequestException"}

NewCall == [pc |-> "called", out |-> "", posts |-> 0, acquired |-> 0]

InitTN ==
  tn = [pc |-> "start"] /\ st = Idle /\ hy = Idle /\ ent = Idle
  /\ pipe = Idle /\ uc = Idle /\ run = Idle /\ an = Idle

\* __init__, lines 27-32, and the threads that are given the notifier
TelegramNotifier ==
  /\ tn.pc = "start"
  /\ UNCHANGED notTN
  /\ \E bot_token \in Credentials, chat_id \in Credentials :
       tn' = [pc |-> "threads", bot_token |-> bot_token, chat_id |-> chat_id,
              lock |-> Unlocked, call |-> [t \in Threads |-> NewCall]]

\* send_message, lines 36-47: without credentials the call returns False
SendMessage(t) ==
  /\ tn.pc = "threads" /\ tn.call[t].pc = "called"
  /\ UNCHANGED notTN
  /\ IF tn.bot_token = "" \/ tn.chat_id = ""
     THEN tn' = [tn EXCEPT !.call[t].pc = "returned",
                           !.call[t].out = "False"]
     ELSE tn' = [tn EXCEPT !.call[t].pc = "with_lock"]

\* line 50: 'with self._lock' is entered once the lock is free
LockEnter(t) ==
  /\ tn.pc = "threads" /\ tn.call[t].pc = "with_lock"
  /\ LockFree(tn.lock)
  /\ UNCHANGED notTN
  /\ tn' = [tn EXCEPT !.lock = t, !.call[t].acquired = @ + 1,
                      !.call[t].pc = "post"]

\* lines 51-52 and 56-58: the post; an exception leaves the with block,
\* which releases the lock, and the call returns False
RequestsPost(t) ==
  /\ tn.pc = "threads" /\ tn.call[t].pc = "post"
  /\ UNCHANGED notTN
  /\ \E outcome \in PostOutcomes :
       IF outcome = "ok"
       THEN tn' = [tn EXCEPT !.call[t].posts = @ + 1,
                             !.call[t].pc = "sleep"]
       ELSE tn' = [tn EXCEPT !.call[t].posts = @ + 1,
                             !.lock = Unlocked,
                             !.call[t].pc = "returned",
                             !.call[t].out = "False"]

\* lines 53-55: the pause is over, the with block is left, True is returned
RateLimitSleep(t) ==
  /\ tn.pc = "threads" /\ tn.call[t].pc = "sleep"
  /\ UNCHANGED notTN
  /\ tn' = [tn EXCEPT !.lock = Unlocked,
                      !.call[t].pc = "returned",
                      !.call[t].out = "True"]

\* one step of a thread
ThreadStep(t) ==
  SendMessage(t) \/ LockEnter(t) \/ RequestsPost(t) \/ RateLimitSleep(t)

NextTN ==
  \/ TelegramNotifier
  \/ \E t \in Threads : SendMessage(t)
  \/ \E t \in Threads : LockEnter(t)
  \/ \E t \in Threads : RequestsPost(t)
  \/ \E t \in Threads : RateLimitSleep(t)

\* every thread that can run does run, and the notifier is constructed
SpecTN ==
  /\ InitTN /\ [][NextTN]_vars
  /\ WF_vars(TelegramNotifier)
  /\ \A t \in Threads : WF_vars(ThreadStep(t))

Init ==
  InitST \/ InitHY \/ InitENT \/ InitPIPE \/ InitUC \/ InitRUN \/ InitAN
  \/ InitTN

Next ==
  NextST \/ NextHY \/ NextENT \/ NextPIPE \/ NextUC \/ NextRUN \/ NextAN
  \/ NextTN

Spec == Init /\ [][Next]_vars

\* the two strategies and the entities they emit
InitSignals == InitST \/ InitHY \/ InitENT

NextSignals == NextST \/ NextHY \/ NextENT

SpecSignals == InitSignals /\ [][NextSignals]_vars

(***************************************************************************)
(* Properties.                                                             *)
(***************************************************************************)
\* the call of generate_trading_signal_hybrid has returned a signal dict
HyReturned == hy.pc = "done" /\ hy.out.exc = ""

\* analyze_market has returned its AnalysisResult
StReturned == st.pc = "done"

\* the last two rows of the primary timeframe are a crossover
StFlipUp ==
  st.latest_data.supertrend_direction = 1
  /\ st.previous_data.supertrend_direction = -1

StFlipDown ==
  st.latest_data.supertrend_direction = -1
  /\ st.previous_data.supertrend_direction = 1

\* C1: every BUY either strategy returns has stop loss < entry < take
\* profit, and every SELL has take profit < entry < stop loss.
C1_RiskLevelsOrdered ==
  /\ HyReturned /\ hy.out.signal.action = "buy"
       => /\ Lt(hy.out.signal.stop_loss, hy.out.signal.entry_price)
          /\ Lt(hy.out.signal.entry_price, hy.out.signal.take_profit)
  /\ HyReturned /\ hy.out.signal.action = "sell"
       => /\ Lt(hy.out.signal.take_profit, hy.out.signal.entry_price)
          /\ Lt(hy.out.signal.entry_price, hy.out.signal.stop_loss)
  /\ StReturned /\ HasSignal(st.result) /\ st.result.signal.signal_type = "BUY"
       => /\ st.result.signal.stop_loss < st.result.signal.price
          /\ st.result.signal.price < st.result.signal.take_profit
  /\ StReturned /\ HasSignal(st.result)
       /\ st.result.signal.signal_type = "SELL"
       => /\ st.result.signal.take_profit < st.result.signal.price
          /\ st.result.signal.price < st.result.signal.stop_loss

\* a buy was emitted from the second order block of the list's prices
C1_Witness ==
  /\ HyReturned /\ hy.out.signal.action = "buy"
  /\ hy.out.signal.entry_price = 60
  /\ hy.out.signal.stop_loss = 30
  /\ hy.out.signal.take_profit = 120

\* C2: no BUY or SELL is returned with a confidence below the threshold of
\* 0.75: a branch whose clamped score is below it returns hold.
C2_NoSignalBelowThreshold ==
  /\ HyReturned /\ hy.out.signal.action \in {"buy", "sell"}
       => hy.out.signal.confidence >= 75
  /\ HyReturned
       /\ HybridGate(hy.order_blocks, hy.discount_premium, hy.manipulation,
                     hy.indicators).branch # "none"
       /\ Min2(HybridScore(HybridGate(hy.order_blocks, hy.discount_premium,
                                      hy.manipulation, hy.indicators).branch,
                           hy.discount_premium, hy.indicators,
                           hy.market_data).hybrid_score, 100) < 75
       => hy.out.signal.action = "hold" /\ hy.out.signal.confidence = 0
  /\ StReturned /\ HasSignal(st.result)
       => st.result.signal.confidence >= 75

\* a branch was entered and scored 0.73: the call returned hold
C2_Witness ==
  /\ HyReturned /\ hy.out.signal.action = "hold"
  /\ HybridGate(hy.order_blocks, hy.discount_premium, hy.manipulation,
                hy.indicators).branch = "sell"
  /\ HybridScore("sell", hy.discount_premium, hy.indicators,
                 hy.market_data).hybrid_score = 73

\* C3: every confidence lies in [0, 1]: the hybrid confidence starts from
\* 0.5 and is clamped at 1, the confidence of a returned signal is the score
\* clamped at 1 (or 0 for hold), and a TradingSignal constructed with a
\* confidence outside [0, 1] is rejected.
C3_ConfidenceInUnitInterval ==
  /\ HyReturned
       => /\ hy.out.signal.confidence >= 0 /\ hy.out.signal.confidence <= 100
          /\ "hybrid_confidence" \in DOMAIN hy.indicators
               => /\ hy.indicators.hybrid_confidence >= 50
                  /\ hy.indicators.hybrid_confidence <= 100
  /\ ent.pc = "done" /\ ent.kind = "TradingSignal"
       /\ (ent.kwargs.confidence < 0 \/ ent.kwargs.confidence > 100)
       => ent.exc = "ValueError"
  /\ StReturned /\ HasSignal(st.result)
       => /\ st.result.signal.confidence >= 0
          /\ st.result.signal.confidence <= 100

\* a buy whose raw score is above 1 was returned with confidence 1
C3_Witness ==
  /\ HyReturned /\ hy.out.signal.action = "buy"
  /\ HybridScore("buy", hy.discount_premium, hy.indicators,
                 hy.market_data).hybrid_score > 100
  /\ hy.out.signal.confidence = 100

\* C4 (as the specification states it): analyze_market returns a BUY when
\* the direction flips from -1 to +1 under a bullish higher timeframe, a
\* SELL when it flips from +1 to -1 under a bearish one, and no signal for
\* every other pair of directions.
C4_CrossoverEmits ==
  StReturned =>
    /\ StFlipUp /\ st.higher_timeframe_trend = BULLISH
         => HasSignal(st.result) /\ st.result.signal.signal_type = "BUY"
    /\ StFlipDown /\ st.higher_timeframe_trend = BEARISH
         => HasSignal(st.result) /\ st.result.signal.signal_type = "SELL"
    /\ ~StFlipUp /\ ~StFlipDown => ~HasSignal(st.result)

C6_TakeProfitRule ==
  StReturned /\ st.gen.signal_type # "None" =>
    LET entry == st.latest_data.close
        risk == Abs(entry - st.latest_data.supertrend)
        resistance == st.sr_levels.resistance
        support == st.sr_levels.support
        tp == st.gen.take_profit
    IN /\ st.gen.signal_type = "BUY" =>
            /\ resistance # None /\ 10 * resistance > 10 * entry + 2 * risk
                 => 10 * tp = Min2(10 * entry + 15 * risk, 10 * resistance)
            /\ resistance = None \/ 10 * resistance <= 10 * entry + 2 * risk
                 => 10 * tp = 10 * entry + 15 * risk
            /\ 10 * tp >= 10 * entry + 2 * risk
       /\ st.gen.signal_type = "SELL" =>
            /\ support # None /\ 10 * support < 10 * entry - 2 * risk
                 => 10 * tp = Max2(10 * entry - 15 * risk, 10 * support)
            /\ support = None \/ 10 * support >= 10 * entry - 2 * risk
                 => 10 * tp = 10 * entry - 15 * risk
            /\ 10 * tp <= 10 * entry - 2 * risk

\* a BUY with a resistance no further than 0.2 risk above the entry got the
\* pure 1.5 R target, beyond that resistance
C6_Witness ==
  /\ StReturned /\ st.gen.signal_type = "BUY"
  /\ st.sr_levels.resistance # None
  /\ 10 * st.sr_levels.resistance
       <= 10 * st.latest_data.close
            + 2 * Abs(st.latest_data.close - st.latest_data.supertrend)
  /\ st.gen.take_profit > st.sr_levels.resistance

\* C6 (as the specification states it): with an opposing level, the take
\* profit is min(entry + 1.5 risk, resistance) for a BUY and
\* max(entry - 1.5 risk, support) for a SELL, raised (lowered) to
\* entry +/- 0.2 risk where that is nearer the entry.
C6_TakeProfitCappedByLevel ==
  StReturned /\ st.gen.signal_type # "None" =>
    LET entry == st.latest_data.close
        risk == Abs(entry - st.latest_data.supertrend)
        resistance == st.sr_levels.resistance
        support == st.sr_levels.support
        tp == st.gen.take_profit
    IN /\ st.gen.signal_type = "BUY" /\ resistance # None
            => 10 * tp \in {Min2(10 * entry + 15 * risk, 10 * resistance),
                            Max2(Min2(10 * entry + 15 * risk,
                                      10 * resistance),
                                 10 * entry + 2 * risk)}
       /\ st.gen.signal_type = "SELL" /\ support # None
            => 10 * tp \in {Max2(10 * entry - 15 * risk, 10 * support),
                            Min2(Max2(10 * entry - 15 * risk, 10 * support),
                                 10 * entry - 2 * risk)}

\* analyze_single_coin has returned
PipeDone == pipe.pc = "done"

\* ... with a signal dict, not the dict of an error
PipeSignal == PipeDone /\ "action" \in DOMAIN pipe.result

\* C7: running analyze_single_coin twice on the same candles and the same
\* configuration gives the same output in every field, the timestamp
\* included.
C7_RerunIdentical ==
  PipeDone /\ pipe.run = 2 => pipe.result = pipe.first

\* C8: on a flat series, every candle the same with no range, the analysis
\* completes without an error and returns hold: the zone is equilibrium, no
\* order block is found, and neither the buy nor the sell branch is entered.
C8_FlatSeriesHolds ==
  PipeDone /\ IsFlat(pipe.shape) /\ pipe.n > 0
    => /\ PipeSignal
       /\ pipe.result.action = "hold"
       /\ pipe.result.analysis.discount_premium.territory = "equilibrium"
       /\ pipe.result.analysis.order_blocks = <<>>
       /\ HybridGate(pipe.result.analysis.order_blocks,
                     pipe.result.analysis.discount_premium,
                     pipe.result.analysis.manipulation,
                     pipe.result.analysis.indicators).branch = "none"

\* 60 identical candles with an ATR of zero were analysed: hold, with a
\* range of zero
C8_Witness ==
  /\ PipeSignal /\ pipe.shape = "flat" /\ pipe.n = 60
  /\ pipe.latest.ATR_14 = 0
  /\ pipe.result.action = "hold"
  /\ pipe.result.analysis.manipulation.range_size = 0
  /\ pipe.result.analysis.indicators.atr = 0

\* C9: a fetched series shorter than the 50 rows the indicators need ends in
\* an error outcome, and no signal is computed from it.
C9_ShortSeriesIsError ==
  PipeDone /\ pipe.n < MinRows => "error" \in DOMAIN pipe.result

\* C11: no indicator value calculate_technical_indicators hands on is NaN:
\* an undefined RSI is replaced by 50 and an undefined volume trend (the
\* 20-candle average volume is zero) by 0.
C11_NoNaNIndicator ==
  PipeSignal /\ pipe.n >= MinRows
    => /\ ~IsNaN(pipe.result.analysis.indicators.rsi)
       /\ ~IsNaN(pipe.result.analysis.indicators.volume_trend)

\* C12: when the analysis fails with an exception, the result the caller
\* sees carries no BUY/SELL signal and carries an error reason.
C12_FailureCarriesReason ==
  StReturned /\ st.gen.exc # ""
    => ~HasSignal(st.result) /\ "error" \in DOMAIN st.result

\* analyze_and_notify is running or has returned
UcRunning == uc.pc \in {"gather", "done"}

\* run_multi_coin_analysis is running or has returned
RunRunning == run.pc \in {"pool", "done"}

\* the pairs whose coroutine ended with one of the outcomes
PairsWith(outcomes) == {p \in Pairs : uc.task[p].outcome \in outcomes}

C14_NotifiedAtMostOnce ==
  /\ UcRunning => \A p \in Pairs : uc.task[p].sends <= 1
  /\ RunRunning => \A w \in Workers : run.worker[w].sends <= 1

\* a notification failed and the coroutine returned, having asked once
C14_Witness ==
  /\ UcRunning
  /\ \E p \in Pairs :
       /\ uc.task[p].pc = "done" /\ uc.task[p].outcome = "signal"
       /\ uc.task[p].sends = 1 /\ ~uc.task[p].success

MayBeNotified(signal, config) ==
  /\ config.enabled
  /\ config.send_individual_signals
  /\ signal.action \in {"buy", "sell"}
  /\ config.only_high_confidence
       => /\ signal.confidence >= config.min_confidence_for_signal
          /\ signal.analysis.indicators.hybrid_confidence >= 65

\* C27: run_multi_coin_analysis sends the individual report of a symbol
\* only if its result carries no error, notifications are enabled, individual
\* signals are enabled, the action is buy or sell and, when only high
\* confidence signals are wanted, the confidence is at least the configured
\* minimum and the hybrid confidence at least 0.65; should_send_notification
\* is true only under the last five conditions, and never for a hold.
C27_ReportOnlyWhenNotifiable ==
  /\ RunRunning =>
       \A w \in Workers :
         run.worker[w].sends > 0
           => /\ w \in DOMAIN run.results
              /\ "error" \notin DOMAIN run.results[w]
              /\ MayBeNotified(run.results[w], run.config)
  /\ run.pc = "asked" =>
       /\ run.out => MayBeNotified(run.signal, run.config)
       /\ run.signal.action = "hold" => ~run.out

\* a run that wants only high confidence signals reported one buy and left
\* the hold of the other symbol unreported
C27_Witness ==
  /\ run.pc = "done" /\ run.config.only_high_confidence
  /\ "error" \notin DOMAIN run.results[1]
  /\ "error" \notin DOMAIN run.results[2]
  /\ run.results[1].action = "buy" /\ run.worker[1].sends = 1
  /\ run.results[2].action = "hold" /\ run.worker[2].sends = 0

\* the threads whose post, or the pause after it, is in progress
TnPosting == {t \in Threads : tn.call[t].pc \in {"post", "sleep"}}

\* what holds of the calls in every state
TnLocked ==
  tn.pc = "threads" =>
    /\ Cardinality(TnPosting) <= 1
    /\ \A t \in Threads : t \in TnPosting <=> tn.lock = t
    /\ TnPosting = {} => tn.lock = 0
    /\ \A t \in Threads :
         /\ tn.call[t].posts <= tn.call[t].acquired
         /\ tn.call[t].acquired <= 1
         /\ tn.call[t].pc = "returned" /\ tn.call[t].out = "True"
              => tn.call[t].posts = 1
         /\ tn.bot_token = "" \/ tn.chat_id = ""
              => /\ tn.call[t].posts = 0 /\ tn.call[t].acquired = 0
                 /\ tn.call[t].pc \in {"called", "returned"}
                 /\ tn.call[t].pc = "returned" => tn.call[t].out = "False"

\* every call has returned True or False and the lock is free
TnAllReturned ==
  /\ tn.pc = "threads"
  /\ tn.lock = 0
  /\ \A t \in Threads :
       tn.call[t].pc = "returned" /\ tn.call[t].out \in {"True", "False"}

\* C28: with threads calling send_message of one notifier concurrently, at
\* most one post (with its pause) is in progress at any time and it is the
\* lock holder's; the lock is released on every path, a failing post
\* included, so that every call eventually returns; and a call made without
\* token or chat id returns False, having neither posted nor taken the lock.
C28_OnePostAtATime == [] TnLocked /\ <> TnAllReturned

\* the post of one thread failed and that call returned False; the next
\* thread holds the lock in its pause while the third waits for it
C28_Witness ==
  /\ tn.pc = "threads"
  /\ \E t, u, v \in Threads :
       /\ tn.call[t].pc = "returned" /\ tn.call[t].out = "False"
       /\ tn.call[t].posts = 1
       /\ tn.call[u].pc = "sleep" /\ tn.lock = u
       /\ tn.call[v].pc = "with_lock"

\* the market structure and the zone analyze_single_coin found, as its
\* result carries them
PipeTrend == pipe.result.analysis.structure.trend

PipeTerritory == pipe.result.analysis.discount_premium.territory

\* C30: analyze_single_coin returns buy only when the structure it detected
\* is an uptrend and the price is in the discount or deep discount zone,
\* sell only when the structure is a downtrend and the price is in the
\* premium or deep premium zone, and always hold on a sideways structure.
C30_SignalFollowsStructureAndZone ==
  PipeDone /\ "error" \notin DOMAIN pipe.result =>
    /\ pipe.result.action \in {"buy", "sell", "hold"}
    /\ pipe.result.action = "buy"
         => /\ PipeTrend = "uptrend"
            /\ PipeTerritory \in {"discount", "deep_discount"}
    /\ pipe.result.action = "sell"
         => /\ PipeTrend = "downtrend"
            /\ PipeTerritory \in {"premium", "deep_premium"}
    /\ PipeTrend = "sideways" => pipe.result.action = "hold"

\* an uptrend with bullish order blocks in a manipulation phase and a hybrid
\* confidence past the threshold is held, the price being in the premium zone
C30_Witness ==
  /\ PipeDone /\ "error" \notin DOMAIN pipe.result
  /\ PipeTrend = "uptrend" /\ PipeTerritory = "premium"
  /\ Len(pipe.result.analysis.order_blocks) > 0
  /\ pipe.result.analysis.order_blocks[1].type = "bullish"
  /\ pipe.result.analysis.manipulation.is_manipulation_phase
  /\ pipe.result.analysis.indicators.hybrid_confidence >= 65
  /\ pipe.result.action = "hold"

\* bar i has the highest high (the lowest low) of the bars from i - 5 to
\* i + 5
IsSwingHigh(df, i) == \A j \in (i - 5)..(i + 5) : df[j].high <= df[i].high

IsSwingLow(df, i) == \A j \in (i - 5)..(i + 5) : df[j].low >= df[i].low

\* the bars of a frame of 20 or more that are swing highs (lows), the first
\* and last five bars aside
SwingHighsOf(df) ==
  IF Len(df) < 20 THEN {}
  ELSE {i \in 6..(Len(df) - 5) : IsSwingHigh(df, i)}

SwingLowsOf(df) ==
  IF Len(df) < 20 THEN {}
  ELSE {i \in 6..(Len(df) - 5) : IsSwingLow(df, i)}

\* the last of a set of bars, and the one before it
LastBar(S) == CHOOSE i \in S : \A k \in S : k <= i

BarBeforeLast(S) == LastBar(S \ {LastBar(S)})

\* the bars a list of (bar, price) points names
BarsOf(points) == {points[j][1] : j \in DOMAIN points}

\* C16: detect_market_structure marks bar i, the first and last five aside,
\* as a swing high (low) exactly when its high (low) is the extreme of the
\* bars i-5..i+5 (it returns the last five of each), and says uptrend only
\* when the last two swing highs and the last two swing lows both strictly
\* rise, downtrend only when both strictly fall, and sideways otherwise:
\* with fewer than two of either, mixed directions, ties, or under 20 bars.
C16_StructureBySwings ==
  an.pc = "structure" =>
    LET df == an.df
        H == SwingHighsOf(df)
        L == SwingLowsOf(df)
        out == an.structure
        two == Cardinality(H) >= 2 /\ Cardinality(L) >= 2
        rising ==
          /\ df[LastBar(H)].high > df[BarBeforeLast(H)].high
          /\ df[LastBar(L)].low > df[BarBeforeLast(L)].low
        falling ==
          /\ df[LastBar(H)].high < df[BarBeforeLast(H)].high
          /\ df[LastBar(L)].low < df[BarBeforeLast(L)].low
    IN /\ BarsOf(out.swing_highs) \subseteq H
       /\ BarsOf(out.swing_lows) \subseteq L
       /\ Len(out.swing_highs) = Min2(5, Cardinality(H))
       /\ Len(out.swing_lows) = Min2(5, Cardinality(L))
       /\ \A i \in H \ BarsOf(out.swing_highs) :
            \A k \in BarsOf(out.swing_highs) : i < k
       /\ \A i \in L \ BarsOf(out.swing_lows) :
            \A k \in BarsOf(out.swing_lows) : i < k
       /\ \A j \in DOMAIN out.swing_highs :
            out.swing_highs[j][2] = df[out.swing_highs[j][1]].high
       /\ \A j \in DOMAIN out.swing_lows :
            out.swing_lows[j][2] = df[out.swing_lows[j][1]].low
       /\ out.trend = "uptrend" <=> two /\ rising
       /\ out.trend = "downtrend" <=> two /\ falling
       /\ out.trend = "sideways" <=> ~(two /\ rising) /\ ~(two /\ falling)

\* a frame with three swing highs and two swing lows, the last two of each
\* rising, was found in an uptrend
C16_Witness ==
  /\ an.pc = "structure" /\ an.structure.trend = "uptrend"
  /\ Len(an.structure.swing_highs) >= 3
  /\ Len(an.structure.swing_lows) = 2

\* the five zones from the lowest to the highest
ZoneRank(territory) ==
  CASE territory = "deep_discount" -> 1
    [] territory = "discount" -> 2
    [] territory = "equilibrium" -> 3
    [] territory = "premium" -> 4
    [] territory = "deep_premium" -> 5

\* the bars check_discount_premium looks back on
LookbackBars(df) == Max2(1, Len(df) - 49)..Len(df)

\* the frame with another last close
WithClose(df, price) == [df EXCEPT ![Len(df)].close = price]

\* C17: over the high and low of the last min(50, n) bars with a range
\* R > 0, check_discount_premium puts the last close in exactly one of five
\* zones: deep_discount below low + 0.236 R, discount below low + 0.382 R,
\* equilibrium from there to low + 0.618 R, premium above that, deep_premium
\* above low + 0.764 R; and a higher close is never put in a lower zone.
C17_FibonacciZones ==
  an.pc = "zone" =>
    LET df == an.df
        high == SetMax({df[i].high : i \in LookbackBars(df)})
        low == SetMin({df[i].low : i \in LookbackBars(df)})
        R == high - low
        pos == (df[Len(df)].close - low) * 1000
        zone == an.discount_premium.territory
    IN R > 0 =>
         /\ zone = "deep_discount" <=> pos < 236 * R
         /\ zone = "discount" <=> 236 * R <= pos /\ pos < 382 * R
         /\ zone = "equilibrium" <=> 382 * R <= pos /\ pos <= 618 * R
         /\ zone = "premium" <=> 618 * R < pos /\ pos <= 764 * R
         /\ zone = "deep_premium" <=> 764 * R < pos
         /\ \A g \in ZonePermilles :
              LET price == low + (R * g) \div 1000
              IN price >= df[Len(df)].close
                   => ZoneRank(CheckDiscountPremium(WithClose(df, price),
                                                    an.indicators).territory)
                        >= ZoneRank(zone)

\* of 60 bars the last 50 range from 1000 to 2000, and a close of 1382,
\* right on the 38.2% level, is in equilibrium
C17_Witness ==
  /\ an.pc = "zone" /\ Len(an.df) = 60
  /\ an.discount_premium.current_price = 1382
  /\ an.discount_premium.territory = "equilibrium"
  /\ an.discount_premium.swing_low = 1000
  /\ an.discount_premium.swing_high = 2000

\* the rows detect_order_blocks works on, the last 30, and those of them
\* it scans: all but the first three and the last
ObWindow(df) == Max2(1, Len(df) - 29)..Len(df)

ObScanned(df) == (Max2(1, Len(df) - 29) + 3)..(Len(df) - 1)

BodyOf(c) == IF c.close >= c.open THEN c.close - c.open ELSE c.open - c.close

\* the volume of row t is at least 1.4 times the mean volume of the window
ObVolumeStandsOut(df, t) ==
  LET W == ObWindow(df)
  IN df[t].volume * Cardinality(W) * 10
       >= SumOver([u \in W |-> df[u].volume], W) * 14

\* the body of row t is more than 0.7 of the ATR (the one of the indicators,
\* or the mean range of the window when they hold none)
ObBodyAboveAtr(df, indicators, t) ==
  LET W == ObWindow(df)
      num == IF "atr" \in DOMAIN indicators THEN indicators.atr
             ELSE SumOver([u \in W |-> df[u].high - df[u].low], W)
      den == IF "atr" \in DOMAIN indicators THEN 1 ELSE Cardinality(W)
  IN num # NaN /\ BodyOf(df[t]) * den * 10 > num * 7

\* row t goes with the trend and a later row of the window passes its
\* extreme by more than 1.5%
ObExtended(df, trend, t) ==
  \/ /\ trend = "uptrend" /\ df[t].close > df[t].open
     /\ \E u \in ObWindow(df) : u > t /\ df[u].high * 1000 > df[t].high * 1015
  \/ /\ trend = "downtrend" /\ df[t].close < df[t].open
     /\ \E u \in ObWindow(df) : u > t /\ df[u].low * 1000 < df[t].low * 985

\* row t is a candidate of detect_order_blocks
ObQualifies(df, trend, indicators, t) ==
  /\ t \in ObScanned(df)
  /\ ObVolumeStandsOut(df, t)
  /\ BodyOf(df[t]) * 2 >= df[t].high - df[t].low
  /\ ObBodyAboveAtr(df, indicators, t)
  /\ ObExtended(df, trend, t)

\* C18 as stated: every order block detect_order_blocks returns is a candle
\* with a body of at least 70% of its high-low range, a volume of at least
\* 1.4 times the local average, the direction of the trend, and a later
\* candle beyond 1.015 of its high (bullish) or 0.985 of its low (bearish).
C18_BodySeventyPercentOfRange ==
  an.pc = "order_blocks" =>
    \A j \in DOMAIN an.order_blocks :
      LET t == an.order_blocks[j].timestamp
      IN /\ BodyOf(an.df[t]) * 10 >= (an.df[t].high - an.df[t].low) * 7
         /\ ObVolumeStandsOut(an.df, t)
         /\ ObExtended(an.df, an.structure.trend, t)

\* C18: every order block detect_order_blocks returns is a scanned candle of
\* the last 30 with a body of at least half its high-low range and of more
\* than 0.7 of the ATR, a volume of at least 1.4 times the mean volume of
\* the last 30, the direction of the trend (bullish in an uptrend, bearish
\* in a downtrend), and a later candle more than 1.5% beyond its extreme;
\* the block carries that candle's high, low and volume.
C18_OrderBlocksQualify ==
  an.pc = "order_blocks" =>
    \A j \in DOMAIN an.order_blocks :
      LET ob == an.order_blocks[j]
          t == ob.timestamp
      IN /\ t \in DOMAIN an.df
         /\ ObQualifies(an.df, an.structure.trend, an.indicators, t)
         /\ ob.type
              = (IF an.structure.trend = "uptrend" THEN "bullish"
                 ELSE "bearish")
         /\ ob.high = an.df[t].high /\ ob.low = an.df[t].low
         /\ ob.volume = an.df[t].volume

\* an order block is returned whose body is two thirds of its range
C18_Witness ==
  /\ an.pc = "order_blocks"
  /\ \E j \in DOMAIN an.order_blocks :
       LET t == an.order_blocks[j].timestamp
       IN /\ BodyOf(an.df[t]) * 10 < (an.df[t].high - an.df[t].low) * 7
          /\ BodyOf(an.df[t]) * 2 >= an.df[t].high - an.df[t].low
          /\ an.order_blocks[j].type = "bullish"

\* the rows of the frame that are candidates, and the confidence of one
ObCandidates ==
  {t \in ObScanned(an.df) :
     ObQualifies(an.df, an.structure.trend, an.indicators, t)}

ObConfidence(t) ==
  CalculateObConfidenceHybrid(
    an.df[t], DfTail(an.df, 30),
    IF an.structure.trend = "uptrend" THEN "bullish" ELSE "bearish",
    an.indicators)

\* C19: detect_order_blocks returns at most 3 order blocks (all candidates
\* when there are no more than 3), each once, in the order of non-increasing
\* confidence; a candidate that is not returned has a confidence no greater
\* than that of any returned one; every confidence lies between 0 and 1.
C19_TopThreeByConfidence ==
  an.pc = "order_blocks" =>
    LET obs == an.order_blocks
        returned == {obs[j].timestamp : j \in DOMAIN obs}
    IN /\ Len(obs) = Min2(3, Cardinality(ObCandidates))
       /\ Cardinality(returned) = Len(obs)
       /\ returned \subseteq ObCandidates
       /\ \A j \in DOMAIN obs :
            /\ obs[j].confidence = ObConfidence(obs[j].timestamp)
            /\ obs[j].confidence >= 0 /\ obs[j].confidence <= 100
            /\ j > 1 => obs[j - 1].confidence >= obs[j].confidence
            /\ \A t \in ObCandidates \ returned :
                 ObConfidence(t) <= obs[j].confidence

\* of five candidates three are returned, the first more confident than the
\* last, and one as confident as the last is left out
C19_Witness ==
  /\ an.pc = "order_blocks"
  /\ Len(an.order_blocks) = 3
  /\ Cardinality(ObCandidates) = 5
  /\ an.order_blocks[1].confidence > an.order_blocks[3].confidence
  /\ \E t \in ObCandidates :
       /\ \A j \in 1..3 : an.order_blocks[j].timestamp # t
       /\ ObConfidence(t) = an.order_blocks[3].confidence

\* the rows detect_manipulation_phase works on, the last 20, their range,
\* and the ATR as the quotient of two numbers
MpWindow == Max2(1, Len(an.df) - 19)..Len(an.df)

MpHigh == SetMax({an.df[t].high : t \in MpWindow})

MpLow == SetMin({an.df[t].low : t \in MpWindow})

MpAtrNum ==
  IF "atr" \in DOMAIN an.indicators THEN an.indicators.atr
  ELSE SumOver([t \in MpWindow |-> an.df[t].high - an.df[t].low], MpWindow)

MpAtrDen ==
  IF "atr" \in DOMAIN an.indicators THEN 1 ELSE Cardinality(MpWindow)

\* at least two highs within 0.25 ATR of the range high, at least two lows
\* within 0.25 ATR of the range low
MpTouchedTwice ==
  /\ MpAtrNum # NaN
  /\ Cardinality({t \in MpWindow :
                    (MpHigh - an.df[t].high) * MpAtrDen * 100
                      <= MpAtrNum * 25}) >= 2
  /\ Cardinality({t \in MpWindow :
                    (an.df[t].low - MpLow) * MpAtrDen * 100
                      <= MpAtrNum * 25}) >= 2

\* at least two volumes above 1.6 times the mean volume, or a strong or
\* very strong structure with a blended confidence above 0.6
MpConfirmed ==
  \/ Cardinality({t \in MpWindow :
                    an.df[t].volume * Cardinality(MpWindow) * 10
                      > SumOver([u \in MpWindow |-> an.df[u].volume],
                                MpWindow) * 16}) >= 2
  \/ /\ "structure_strength" \in DOMAIN an.indicators
     /\ an.indicators.structure_strength \in {"strong", "very_strong"}
     /\ an.indicators.hybrid_confidence > 60

\* C20 as stated: the flag is true whenever at least two highs lie within
\* 0.25 ATR of the range high of the last 20 candles, at least two lows
\* within 0.25 ATR of the range low, and there are two volume spikes above
\* 1.6 times the average or the structural confirmation.
C20_FlagWheneverTouchedAndConfirmed ==
  an.pc = "manipulation" =>
    (MpTouchedTwice /\ MpConfirmed
       => an.manipulation.is_manipulation_phase)

\* C20: the flag of detect_manipulation_phase is true exactly when, over
\* the last 20 candles, the range (highest high - lowest low) is below
\* 5 times the ATR, at least two highs lie within 0.25 ATR of the range high
\* and at least two lows within 0.25 ATR of the range low, and there are two
\* volume spikes above 1.6 times the average or the structural confirmation;
\* with no ATR, or a range of 5 ATR or more, the flag is false.
C20_FlagNeedsTightRange ==
  an.pc = "manipulation" =>
    (an.manipulation.is_manipulation_phase
       <=> /\ MpAtrNum # NaN
           /\ (MpHigh - MpLow) * MpAtrDen < MpAtrNum * 5
           /\ MpTouchedTwice
           /\ MpConfirmed)

\* a range of 20 with an ATR of 5, both edges touched twice and two volume
\* spikes without the structural confirmation: the flag is set
C20_Witness ==
  /\ an.pc = "manipulation"
  /\ an.manipulation.is_manipulation_phase
  /\ an.manipulation.range_size = 20
  /\ an.manipulation.atr = 5
  /\ an.manipulation.volume_spikes = 2
  /\ ~an.manipulation.hybrid_confirmation

\* the zone, the order blocks and the hybrid confidence would let the call
\* into a branch: only the manipulation flag is left to ask
HyOpenButForFlag ==
  LET hybrid_confidence == Get(hy.indicators, "hybrid_confidence", 50)
      Strong(type) ==
        \E i \in DOMAIN hy.order_blocks :
          /\ hy.order_blocks[i].type = type
          /\ hy.order_blocks[i].confidence >= 70
  IN /\ hybrid_confidence >= 65
     /\ \/ hy.discount_premium.territory \in {"discount", "deep_discount"}
           /\ Strong("bullish")
        \/ hy.discount_premium.territory \in {"premium", "deep_premium"}
           /\ Strong("bearish")

\* C21: generate_trading_signal_hybrid never returns buy or sell when
\* is_manipulation_phase is false, the default dict of a failed
\* detect_manipulation_phase included: it returns hold, and raises nothing.
C21_NoSignalOutsideManipulation ==
  hy.pc = "done" /\ ~hy.manipulation.is_manipulation_phase
    => hy.out.exc = "" /\ hy.out.signal.action = "hold"

\* after a failed detect_manipulation_phase the call returned hold although
\* zone, order blocks and hybrid confidence were those of a signal
C21_Witness ==
  /\ HyReturned /\ hy.manipulation = ManipulationDefault
  /\ "atr" \in DOMAIN hy.indicators /\ hy.indicators.atr = 10
  /\ HyOpenButForFlag
  /\ hy.out.signal.action = "hold"

\* the five fields of the signal dict the branches set
RiskFields ==
  {"confidence", "entry_price", "stop_loss", "take_profit",
   "risk_reward_ratio"}

\* C29: whenever generate_trading_signal_hybrid returns hold, confidence,
\* entry_price, stop_loss, take_profit and risk_reward_ratio are 0 as they
\* were set at the start, so any of them differs from 0 only with buy or
\* sell; a call that entered a branch and scored below the minimum
\* confidence returns hold with all five at 0; a buy or sell carries the
\* score as confidence and the order block's low (buy) or high (sell) as
\* entry.
C29_HoldLeavesRiskFieldsZero ==
  HyReturned =>
    /\ hy.out.signal.action = "hold"
         => \A f \in RiskFields : hy.out.signal[f] = 0
    /\ (\E f \in RiskFields : hy.out.signal[f] # 0)
         => hy.out.signal.action \in {"buy", "sell"}
    /\ hy.out.signal.action \in {"buy", "sell"}
         => /\ hy.out.signal.confidence >= 75
            /\ \E i \in DOMAIN hy.order_blocks :
                 hy.out.signal.entry_price
                   = (IF hy.out.signal.action = "buy"
                      THEN hy.order_blocks[i].low
                      ELSE hy.order_blocks[i].high)

\* the flag was set and the gates were passed, the score stayed below 0.75:
\* hold, with the five fields at 0
C29_Witness ==
  /\ HyReturned /\ hy.manipulation.is_manipulation_phase
  /\ HyOpenButForFlag
  /\ hy.out.signal.action = "hold"
  /\ \A f \in RiskFields : hy.out.signal[f] = 0

\* analyze_and_notify has tested the connections: it is gathering, has
\* returned or has raised
UcTested == uc.pc \in {"gather", "done", "raised"}

\* the entries of analysis_results and of errors that are of a pair
UcEntries(p) ==
  Cardinality({i \in DOMAIN uc.results.analysis_results :
                 uc.results.analysis_results[i].symbol = p})

UcErrors(p) ==
  Cardinality({i \in DOMAIN uc.results.errors : uc.results.errors[i] = p})

\* C22: once the connection tests have passed, under every interleaving
\* every pair ends either counted in pairs_analyzed with one entry in
\* analysis_results, or with one error message in errors, never both and
\* never neither; the failure of a pair leaves the run gathering, and when
\* the run returns pairs_analyzed + len(errors) is the number of pairs.
C22_EveryPairCountedOrFailed ==
  UcRunning =>
    /\ \A p \in Pairs :
         /\ UcEntries(p) + UcErrors(p)
              = (IF uc.task[p].outcome = "" THEN 0 ELSE 1)
         /\ UcEntries(p) = 1 <=> uc.task[p].outcome \in {"hold", "signal"}
         /\ UcErrors(p) = 1 <=> uc.task[p].outcome = "error"
         /\ uc.task[p].pc = "done" => uc.task[p].outcome # ""
    /\ uc.results.pairs_analyzed = Len(uc.results.analysis_results)
    /\ uc.pc = "done"
         => uc.results.pairs_analyzed + Len(uc.results.errors)
              = Cardinality(Pairs)

\* the run returned with one pair failed on its fetch and the other
\* analysed after it
C22_Witness ==
  /\ uc.pc = "done"
  /\ uc.results.pairs_analyzed = 1 /\ Len(uc.results.errors) = 1
  /\ \E p \in Pairs :
       uc.task[p].outcome = "error" /\ uc.task[p].analyses = 0

\* C23: between the awaits of a run signals_generated equals
\* notifications_sent and neither exceeds pairs_analyzed: they count the
\* pairs whose analysis had a signal and whose notification reported
\* success, so a signal whose notification failed is counted in neither.
C23_SignalsEqualNotifications ==
  UcTested =>
    /\ uc.results.signals_generated = uc.results.notifications_sent
    /\ uc.results.notifications_sent <= uc.results.pairs_analyzed
    /\ uc.results.notifications_sent
         = Cardinality({p \in Pairs : /\ uc.task[p].outcome = "signal"
                                      /\ uc.task[p].pc = "done"
                                      /\ uc.task[p].success})

\* two signals were detected, the notification of one failed: one is counted
C23_Witness ==
  /\ uc.pc = "done" /\ uc.enabled
  /\ \A p \in Pairs : uc.task[p].outcome = "signal" /\ uc.task[p].sends = 1
  /\ \E p \in Pairs : ~uc.task[p].success
  /\ uc.results.signals_generated = 1
  /\ uc.results.pairs_analyzed = 2

\* one of the connection tests made returned False or raised
UcTestFailed == \E i \in DOMAIN uc.tests : uc.tests[i].outcome # "True"

\* C24: the exchange connection is tested first and the notification
\* connection after it, before any pair is fetched or analysed; when a test
\* returns False or raises, no pair is fetched or analysed, the
\* notification test is not made after a failed exchange test,
\* _send_critical_error_notification is called (and hands its message over
\* when notifications are enabled), the error is recorded, and the
\* exception is raised to the caller, no results being returned.
C24_ConnectionsTestedFirst ==
  UcTested =>
    /\ Len(uc.tests) \in {1, 2}
    /\ uc.tests[1].service = "exchange"
    /\ Len(uc.tests) = 2
         => uc.tests[2].service = "telegram" /\ uc.tests[1].outcome = "True"
    /\ uc.tests[1].outcome # "True" => Len(uc.tests) = 1
    /\ UcTestFailed
         => /\ uc.pc = "raised"
            /\ \A p \in Pairs :
                 uc.task[p].fetches = 0 /\ uc.task[p].analyses = 0
            /\ uc.results.errors = <<"critical">>
            /\ uc.results.pairs_analyzed = 0
            /\ uc.messages
                 = [error |-> 0, summary |-> 0,
                    critical |-> IF uc.enabled THEN 1 ELSE 0]
    /\ uc.pc = "raised" => UcTestFailed
    /\ (\E p \in Pairs : uc.task[p].fetches > 0 \/ uc.task[p].analyses > 0)
         => Len(uc.tests) = 2 /\ ~UcTestFailed

\* the exchange answered, the notification test raised: the run raised with
\* the critical message handed over and no pair fetched
C24_Witness ==
  /\ uc.pc = "raised" /\ Len(uc.tests) = 2
  /\ uc.tests[2].outcome = "raise"
  /\ uc.messages.critical = 1
  /\ \A p \in Pairs : uc.task[p].fetches = 0

\* C25: the summary is sent at most once, only after every coroutine has
\* finished, and only when signals_generated is above 0 then (and
\* notifications are enabled); a run without a counted signal sends none,
\* and a run whose summary failed to send returns its results all the same.
C25_SummaryOnceAfterGather ==
  UcTested =>
    /\ uc.messages.summary <= 1
    /\ uc.messages.summary = 1
         => /\ uc.pc = "done"
            /\ \A p \in Pairs : uc.task[p].pc = "done"
            /\ uc.results.signals_generated > 0
            /\ uc.enabled
    /\ uc.pc = "done" /\ uc.results.signals_generated = 0
         => uc.messages.summary = 0
    /\ uc.pc = "done" /\ uc.results.signals_generated > 0 /\ uc.enabled
         => uc.messages.summary = 1
    /\ uc.summary_failed => uc.pc = "done" /\ uc.messages.summary = 1

\* the summary of a run with one counted signal failed to send, and the run
\* returned
C25_Witness ==
  /\ uc.pc = "done" /\ uc.summary_failed
  /\ uc.messages.summary = 1
  /\ uc.results.signals_generated = 1

\* C26: with ENABLE_NOTIFICATIONS off no signal, per-pair error, critical
\* error or summary message is handed to the notification service, and
\* every detected signal is counted in signals_generated and
\* notifications_sent as _send_signal_notification reports success.
C26_DisabledSendsNothing ==
  UcTested /\ ~uc.enabled =>
    /\ uc.messages = [error |-> 0, critical |-> 0, summary |-> 0]
    /\ \A p \in Pairs :
         /\ uc.task[p].sends = 0
         /\ uc.task[p].outcome = "signal" => uc.task[p].success
    /\ uc.results.signals_generated
         = Cardinality({p \in Pairs : uc.task[p].outcome = "signal"})
    /\ uc.results.notifications_sent = uc.results.signals_generated

\* notifications are off: one pair failed, the signal of the other is
\* counted, and nothing was handed over
C26_Witness ==
  /\ uc.pc = "done" /\ ~uc.enabled
  /\ Len(uc.results.errors) = 1
  /\ uc.results.signals_generated = 1
  /\ uc.results.notifications_sent = 1
  /\ uc.messages.error = 0 /\ uc.messages.summary = 0

\* C10 (as the specification states it): MarketData rejects a candle with
\* an open, high, low or close that is not positive, a high below the
\* largest of open, close and low, a low above the smallest of open, close
\* and high, or a negative volume.
C10_MarketDataRejectsInvalid ==
  ent.pc = "done" /\ ent.kind = "MarketData" =>
    LET md == ent.kwargs
    IN (\/ md.open <= 0 \/ md.high <= 0 \/ md.low <= 0 \/ md.close <= 0
        \/ md.high < Max2(md.open, Max2(md.close, md.low))
        \/ md.low > Min2(md.open, Min2(md.close, md.high))
        \/ md.volume < 0)
       => ent.exc = "ValueError"
====
